---- MODULE Spec2Model ----
(***************************************************************************)
(* A model of dull-idle-game: the exact-rational inventory, the producer   *)
(* tick (Producer::tick, GameState::tick), the ore minigame session        *)
(* (OreMinigame) and the frame handler IdleGame::update.                   *)
(*                                                                         *)
(* Specifications:                                                         *)
(*   SpecProducer  calls of Producer::tick on one producer                 *)
(*   SpecTick      calls of GameState::tick on a collection of elements    *)
(*   SpecOre       calls of the methods of one OreMinigame                 *)
(*   SpecTable     the production table of the Summary tab                 *)
(*   SpecMine, SpecRetry, SpecClock, SpecElems, SpecBank, SpecDebug,       *)
(*   SpecOrder, SpecDelete, SpecTimer, SpecBacklog                         *)
(*                 frames of IdleGame::update from IdleGame::default, each *)
(*                 with the clicks and the times of one scenario           *)
(*   SpecLoad      IdleGame::new on what eframe stored, frames and saves   *)
(***************************************************************************)
EXTENDS Integers, Sequences, FiniteSets, TLC

VARIABLES
    inventory,        \* GameState.inventory: HashMap<Good, F>
    ore_minigames,    \* GameState.ore_minigames: HashMap<Good, OreMinigame>,
                      \* each session kept as its Summary
    elements,         \* GameState.elements: HashMap<usize, Element>
    prev_time,        \* IdleGame.prev_time, in microseconds
    game_timer,       \* IdleGame.game_timer: F, in seconds
    producer_index_marked_for_deletion,   \* IdleGame: Option<usize>
    selection,        \* IdleGame.selection
    debug_amt_slider, \* IdleGame.debug_amt_slider
    self,             \* the receiver of Producer::tick (SpecProducer)
    tick_rate,        \* the tick_rate argument of the tick calls
    om,               \* the receiver of the OreMinigame methods (SpecOre)
    before,           \* history: the receiver/inventory the last call started from
    inv0,             \* history: the inventory of the initial state
    nticks,           \* history: number of calls made so far
    last,             \* history: the last call and its input
    stats,            \* history: counters of the minigame
    storage,          \* eframe's storage: the value saved under APP_KEY
    hist              \* history kept by the specification in use

gameVars == <<inventory, ore_minigames, elements>>
appVars == <<prev_time, game_timer, producer_index_marked_for_deletion,
             selection, debug_amt_slider>>
envVars == <<storage, hist>>
vars == <<inventory, ore_minigames, elements, prev_time, game_timer,
          producer_index_marked_for_deletion, selection, debug_amt_slider,
          self, tick_rate, om, before, inv0, nticks, last, stats, storage,
          hist>>

----------------------------------------------------------------------------
(* F = BigRational: exact rationals <<numerator, denominator>>, kept in    *)
(* lowest terms with a positive denominator, as num::BigRational does.     *)

Abs(n) == IF n < 0 THEN -n ELSE n

\* the remainder is computed once, before the call that uses it
RECURSIVE GCD(_, _)
GCD(a, b) ==
    IF b = 0 THEN a ELSE CHOOSE g \in {GCD(b, r) : r \in {a % b}} : TRUE

F(n, d) ==
    LET g == GCD(Abs(n), Abs(d))
        s == IF d < 0 THEN -1 ELSE 1
    IN  <<(s * n) \div g, (s * d) \div g>>

Zero == F(0, 1)
One == F(1, 1)

RAdd(a, b) == F(a[1] * b[2] + b[1] * a[2], a[2] * b[2])
RSub(a, b) == F(a[1] * b[2] - b[1] * a[2], a[2] * b[2])
RMul(a, b) == F(a[1] * b[1], a[2] * b[2])
RLt(a, b) == a[1] * b[2] < b[1] * a[2]
RLe(a, b) == a[1] * b[2] <= b[1] * a[2]
RDiv(a, b) == F(a[1] * b[2], a[2] * b[1])
\* the largest integer not above a
RFloor(a) == a[1] \div a[2]
RMin(a, b) == IF RLt(b, a) THEN b ELSE a
RMax(a, b) == IF RLt(a, b) THEN b ELSE a

----------------------------------------------------------------------------
(* goods.rs *)

Goods == {"Money", "IronOre", "GoldOre", "SilverOre", "Coal"}

\* Good::iter(): declaration order
GoodSeq == <<"Money", "IronOre", "GoldOre", "SilverOre", "Coal">>

GoodGroupOf(good) == IF good = "Money" THEN "Money" ELSE "Ore"

Difficulty(good) ==
    CASE good = "Money" -> 0
      [] good = "IronOre" -> 3
      [] good = "GoldOre" -> 5
      [] good = "SilverOre" -> 4
      [] good = "Coal" -> 3

\* Good::group_iter(group), as a sequence in declaration order
group_iter(group) == SelectSeq(GoodSeq, LAMBDA g : GoodGroupOf(g) = group)

Ores == {g \in Goods : GoodGroupOf(g) = "Ore"}

----------------------------------------------------------------------------
(* producers.rs *)

None == <<"None">>
GravityDrill(good) == <<"GravityDrill", good>>
CoalDrill(good) == <<"CoalDrill", good>>

Producers == {None} \cup {GravityDrill(g) : g \in Goods}
                    \cup {CoalDrill(g) : g \in Goods}

\* HashMap::new() and a map with one entry
EmptyMap == [g \in {} |-> Zero]
MapOf(good, amount) == [g \in {good} |-> amount]

\* mutant: the gravity drill is given the coal drill's inputs
properties_gravity_burns_coal(p) ==
    CASE p[1] = "None" ->
           [name |-> "None", cost |-> F(0, 1),
            outputs |-> EmptyMap, inputs |-> EmptyMap]
      [] p[1] \in {"GravityDrill", "CoalDrill"} ->
           [name |-> "Drill", cost |-> F(10, 1),
            outputs |-> MapOf(p[2], F(1, 1)),
            inputs |-> MapOf("Coal", F(1, 4))]

\* Producer::properties: name, cost, outputs and inputs per second
properties(p) ==
    CASE p[1] = "None" ->
           [name |-> "None", cost |-> F(0, 1),
            outputs |-> EmptyMap, inputs |-> EmptyMap]
      [] p[1] = "GravityDrill" ->
           [name |-> "Gravity Drill", cost |-> F(10, 1),
            outputs |-> MapOf(p[2], F(1, 1)), inputs |-> EmptyMap]
      [] p[1] = "CoalDrill" ->
           [name |-> "Coal Drill", cost |-> F(10, 1),
            outputs |-> MapOf(p[2], F(1, 1)),
            inputs |-> MapOf("Coal", F(1, 4))]

\* inventory.get(good).unwrap_or(&0)
Get(inv, good) == IF good \in DOMAIN inv THEN inv[good] ELSE Zero

\* *inventory.entry(good).or_insert(0) += amount
Credit(inv, good, amount) ==
    [g \in DOMAIN inv \cup {good} |->
        IF g = good THEN RAdd(Get(inv, good), amount) ELSE inv[g]]

\* *inventory.entry(good).or_insert(0) -= amount
Debit(inv, good, amount) ==
    [g \in DOMAIN inv \cup {good} |->
        IF g = good THEN RSub(Get(inv, good), amount) ELSE inv[g]]

\* mutant: the check only asks that no input balance is negative
has_enough_inputs_nonnegative(p, inv, dt) ==
    \A good \in DOMAIN properties(p).inputs : ~ RLt(Get(inv, good), Zero)

\* mutant: a balance equal to what the tick needs is not enough
has_enough_inputs_strict(p, inv, dt) ==
    \A good \in DOMAIN properties(p).inputs :
        RLt(RMul(properties(p).inputs[good], dt), Get(inv, good))

\* Producer::has_enough_inputs
has_enough_inputs(p, inv, dt) ==
    \A good \in DOMAIN properties(p).inputs :
        ~ RLt(Get(inv, good), RMul(properties(p).inputs[good], dt))

\* the two loops of Producer::tick_inventory, over the entries left to visit
RECURSIVE CreditAll(_, _, _, _)
CreditAll(inv, map, dt, todo) ==
    IF todo = {} THEN inv
    ELSE LET good == CHOOSE g \in todo : TRUE
         IN  CreditAll(Credit(inv, good, RMul(map[good], dt)), map, dt,
                       todo \ {good})

RECURSIVE DebitAll(_, _, _, _)
DebitAll(inv, map, dt, todo) ==
    IF todo = {} THEN inv
    ELSE LET good == CHOOSE g \in todo : TRUE
         IN  DebitAll(Debit(inv, good, RMul(map[good], dt)), map, dt,
                      todo \ {good})

\* mutant: the inputs are debited per second, not per tick
tick_inventory_debits_rate(p, inv, dt) ==
    LET props == properties(p)
        credited == CreditAll(inv, props.outputs, dt, DOMAIN props.outputs)
    IN  DebitAll(credited, props.inputs, One, DOMAIN props.inputs)

\* Producer::tick_inventory: outputs are credited, then inputs are debited
tick_inventory(p, inv, dt) ==
    LET props == properties(p)
        credited == CreditAll(inv, props.outputs, dt, DOMAIN props.outputs)
    IN  DebitAll(credited, props.inputs, dt, DOMAIN props.inputs)

\* mutant: proportional throttling, the tick scaled down to what the
\* scarcest input affords
tick_proportional(p, inv, dt) ==
    LET props == properties(p)
        fractions == {IF props.inputs[x] = Zero THEN dt
                      ELSE RMin(dt, RDiv(Get(inv, x), props.inputs[x])) :
                         x \in DOMAIN props.inputs}
        lowest == IF fractions = {} THEN dt
                  ELSE CHOOSE f \in fractions :
                          \A h \in fractions : RLe(f, h)
        scale == RMax(Zero, RMin(dt, lowest))
    IN  tick_inventory(p, inv, scale)

\* mutant: the inputs are not checked at all
tick_unchecked(p, inv, dt) == tick_inventory(p, inv, dt)

\* Producer::tick
tick(p, inv, dt) ==
    IF has_enough_inputs(p, inv, dt) THEN tick_inventory(p, inv, dt) ELSE inv

----------------------------------------------------------------------------
(* element.rs and GameState::tick (mod.rs) *)

Blank == <<"Blank">>
ProducerElem(p) == <<"Producer", p>>

\* struct Element
Element(variant, window_id, is_open) ==
    [variant |-> variant, window_id |-> window_id, is_open |-> is_open]

\* the sequences that list every member of S once: the orders in which a
\* HashMap with key set S can be iterated
RECURSIVE Perms(_)
Perms(S) ==
    IF S = {} THEN {<<>>}
    ELSE UNION {{<<x>> \o rest : rest \in Perms(S \ {x})} : x \in S}

\* mutant: every producer checks its inputs against the inventory as it was
\* when the tick began
RECURSIVE tick_from_snapshot(_, _, _, _, _)
tick_from_snapshot(elems, start, inv, dt, order) ==
    IF order = <<>> THEN inv
    ELSE LET variant == elems[Head(order)].variant
             next_inv == IF variant[1] = "Producer"
                            /\ has_enough_inputs(variant[2], start, dt)
                         THEN tick_inventory(variant[2], inv, dt)
                         ELSE inv
         IN  tick_from_snapshot(elems, start, next_inv, dt, Tail(order))

GameStateTick_snapshot(elems, inv, dt, order) ==
    tick_from_snapshot(elems, inv, inv, dt, order)

\* GameState::tick, the elements being visited in the order `order`
RECURSIVE GameStateTick(_, _, _, _)
GameStateTick(elems, inv, dt, order) ==
    IF order = <<>> THEN inv
    ELSE LET variant == elems[Head(order)].variant
             next_inv == IF variant[1] = "Producer"
                         THEN tick(variant[2], inv, dt)
                         ELSE inv
         IN  GameStateTick(elems, next_inv, dt, Tail(order))

----------------------------------------------------------------------------
(* Bounds and input sets of the tick specifications *)

\* number of Producer::tick calls in a behaviour of SpecProducer
MaxTicks == 20
\* number of elements in a collection, and of GameState::tick calls, in SpecTick
MaxElems == 2
MaxRounds == 2

\* tick durations tried: the game's 1/20 s, zero, a longer and a negative one
TickRates == {Zero, F(1, 20), F(1, 10), F(-1, 20)}

CoalAmounts == {F(-1, 1), Zero, F(1, 160), F(1, 80), F(3, 160), F(1, 4), F(1, 1)}
OtherAmounts == {Zero, F(-1, 1)}
InvDomains == {Goods, {}} \cup {Goods \ {g} : g \in Goods}

\* inventories a Producer::tick call is tried on: entries may be missing,
\* zero, negative, or a fraction of what a tick needs
InitInventories ==
    {[g \in D |-> IF g = "Coal" THEN c ELSE v] :
        D \in InvDomains, c \in CoalAmounts, v \in OtherAmounts}

\* the values of the variables a specification does not use
NoIndex == <<>>
\* cc.storage holding no value under APP_KEY
NoStorage == <<>>
IdleEnv ==
    /\ storage = NoStorage
    /\ hist = <<>>
IdleApp ==
    /\ prev_time = 0
    /\ game_timer = Zero
    /\ producer_index_marked_for_deletion = NoIndex
    /\ selection = "Summary"
    /\ debug_amt_slider = 100
IdleOre ==
    /\ ore_minigames = <<>>
    /\ om = <<>>
    /\ stats = <<>>

----------------------------------------------------------------------------
(* SpecProducer: one producer, ticked again and again at one tick rate *)

InitProducer ==
    /\ self \in Producers
    /\ tick_rate \in TickRates
    /\ inventory \in InitInventories
    /\ inv0 = inventory
    /\ before = inventory
    /\ nticks = 0
    /\ elements = <<>>
    /\ last = <<>>
    /\ IdleApp
    /\ IdleEnv
    /\ IdleOre

\* self.tick(&mut inventory, &tick_rate)
ProducerTick ==
    /\ nticks < MaxTicks
    /\ inventory' = tick(self, inventory, tick_rate)
    /\ before' = inventory
    /\ nticks' = nticks + 1
    /\ UNCHANGED <<self, tick_rate, inv0, elements, last, ore_minigames, om,
                   stats, appVars, envVars>>

NextProducer == ProducerTick

SpecProducer == InitProducer /\ [][NextProducer]_vars

----------------------------------------------------------------------------
(* SpecTick: a collection of elements, ticked by GameState::tick *)

\* the elements a collection is built from: a blank, the producer without
\* outputs, drills without inputs, drills that compete for coal, and the
\* coal drill that feeds itself
TickVariants ==
    {Blank} \cup
    {ProducerElem(p) :
        p \in {None, GravityDrill("IronOre"), GravityDrill("Coal"),
               CoalDrill("IronOre"), CoalDrill("GoldOre"), CoalDrill("Coal")}}

TickCollections ==
    UNION {[0 .. n - 1 -> {Element(v, "", TRUE) : v \in TickVariants}] :
              n \in 0 .. MaxElems}

TickInventories ==
    {[g \in Goods |-> IF g = "Coal" THEN c ELSE Zero] :
        c \in {Zero, F(1, 80), F(3, 160), F(1, 4)}}
    \cup {[g \in Goods |-> F(-1, 1)], [g \in {} |-> Zero]}

InitTick ==
    /\ elements \in TickCollections
    /\ tick_rate \in TickRates \ {F(1, 10)}
    /\ inventory \in TickInventories
    /\ inv0 = inventory
    /\ before = inventory
    /\ nticks = 0
    /\ self = None
    /\ last = <<>>
    /\ IdleApp
    /\ IdleEnv
    /\ IdleOre

\* game_state.tick(&tick_rate): the HashMap is iterated in some order
GameTick ==
    /\ nticks < MaxRounds
    /\ \E order \in Perms(DOMAIN elements) :
          /\ inventory' = GameStateTick(elements, inventory, tick_rate, order)
          /\ last' = order
    /\ before' = inventory
    /\ nticks' = nticks + 1
    /\ UNCHANGED <<self, tick_rate, inv0, elements, ore_minigames, om, stats,
                   appVars, envVars>>

NextTick == GameTick

SpecTick == InitTick /\ [][NextTick]_vars

----------------------------------------------------------------------------
(* Claims about Producer::tick and GameState::tick *)

NonNegative(inv) == \A g \in DOMAIN inv : RLe(Zero, inv[g])

\* rate of good g in a rate map, 0 when the map has no entry for g
RateOf(map, g) == IF g \in DOMAIN map THEN map[g] ELSE Zero

\* every input balance covers rate_in * dt
Affordable(p, inv, dt) ==
    \A x \in DOMAIN properties(p).inputs :
        RLe(RMul(properties(p).inputs[x], dt), Get(inv, x))

\* C1: from an inventory with every balance >= 0, after any sequence of
\* GameState::tick calls with a tick duration >= 0, over any collection of
\* producers visited in any order, every balance is still >= 0.
C1_NonNegative ==
    (NonNegative(inv0) /\ RLe(Zero, tick_rate)) => NonNegative(inventory)

\* two coal drills competed for the last coal and the balance stopped at 0
C1_Witness ==
    /\ nticks >= 2
    /\ NonNegative(inv0)
    /\ tick_rate = F(1, 20)
    /\ RLt(Zero, Get(inv0, "Coal"))
    /\ Get(inventory, "Coal") = Zero
    /\ \E i, j \in DOMAIN elements :
          /\ i # j
          /\ elements[i].variant = ProducerElem(CoalDrill("IronOre"))
          /\ elements[j].variant = ProducerElem(CoalDrill("GoldOre"))

\* C2 as stated (proportional throttling): when the balance of an input X is
\* a fraction of rate_in * dt, the tick credits that fraction of
\* rate_out * dt and debits the whole balance of X.
C2_Proportional ==
    nticks > 0 =>
        \A x \in DOMAIN properties(self).inputs :
            LET need == RMul(properties(self).inputs[x], tick_rate)
                have == Get(before, x)
            IN  (RLt(Zero, have) /\ RLt(have, need)) =>
                    \A g \in DOMAIN properties(self).outputs :
                        inventory =
                            Debit(Credit(before, g,
                                         RMul(RDiv(have, need),
                                              RMul(properties(self).outputs[g],
                                                   tick_rate))),
                                  x, have)

\* C2 (amended): when the balance of an input X is a fraction of
\* rate_in * dt, Producer::tick credits nothing and debits nothing: the
\* inventory, X included, is what it was, so the following ticks find the
\* same shortage and produce nothing either until X is replenished.
C2_StarvedProducesNothing ==
    nticks > 0 =>
        \A x \in DOMAIN properties(self).inputs :
            LET need == RMul(properties(self).inputs[x], tick_rate)
                have == Get(before, x)
            IN  (RLt(Zero, have) /\ RLt(have, need)) =>
                    /\ inventory = before
                    /\ RLt(Zero, Get(inventory, x))
                    /\ RLt(Get(inventory, x), need)

\* a coal drill ran once on 3/160 coal and is then left with half a tick's coal
C2_Witness ==
    /\ nticks >= 2
    /\ self = CoalDrill("IronOre")
    /\ tick_rate = F(1, 20)
    /\ Get(inv0, "Coal") = F(3, 160)
    /\ Get(before, "Coal") = F(1, 160)
    /\ inventory = before

\* C3: all-or-nothing: if for at least one input good the balance (0 when
\* the entry is absent) is strictly less than rate_in * dt, Producer::tick
\* leaves the whole inventory unchanged.
C3_AllOrNothing ==
    nticks > 0 =>
        ((\E x \in DOMAIN properties(self).inputs :
              RLt(Get(before, x), RMul(properties(self).inputs[x], tick_rate)))
          => inventory = before)

\* a coal drill was ticked with no coal entry at all
C3_Witness ==
    /\ nticks > 0
    /\ self = CoalDrill("SilverOre")
    /\ tick_rate = F(1, 10)
    /\ "Coal" \notin DOMAIN before
    /\ inventory = before

\* C4: a producer with no inputs (GravityDrill(g)) credits exactly
\* rate_out * dt of g on every tick, whatever the inventory holds, and
\* changes no other balance; Producer::None changes nothing.
C4_NoInputs ==
    nticks > 0 =>
        /\ self[1] = "GravityDrill" =>
              /\ DOMAIN inventory = DOMAIN before \cup {self[2]}
              /\ \A g \in DOMAIN inventory :
                    inventory[g] =
                        IF g = self[2]
                        THEN RAdd(Get(before, g),
                                  RMul(properties(self).outputs[g], tick_rate))
                        ELSE before[g]
        /\ self = None => inventory = before

\* a gravity drill produced into a missing entry beside negative balances
C4_Witness ==
    /\ nticks = 1
    /\ self = GravityDrill("IronOre")
    /\ tick_rate = F(1, 20)
    /\ "IronOre" \notin DOMAIN before
    /\ RLt(Get(before, "Coal"), Zero)
    /\ inventory["IronOre"] = F(1, 20)

\* C5: when every input balance is at least rate_in * dt, one tick credits
\* exactly rate_out * dt to each output and debits exactly rate_in * dt from
\* each input; a CoalDrill(g), g # Coal, run for 20 ticks of 1/20 s with at
\* least 1/4 coal adds exactly 1 unit of g and removes exactly 1/4 coal.
C5_ExactRates ==
    /\ (nticks > 0 /\ Affordable(self, before, tick_rate)) =>
          \A g \in Goods :
              Get(inventory, g) =
                  RSub(RAdd(Get(before, g),
                            RMul(RateOf(properties(self).outputs, g), tick_rate)),
                       RMul(RateOf(properties(self).inputs, g), tick_rate))
    /\ (/\ nticks = 20
        /\ self[1] = "CoalDrill"
        /\ self[2] # "Coal"
        /\ tick_rate = F(1, 20)
        /\ RLe(F(1, 4), Get(inv0, "Coal"))) =>
          /\ Get(inventory, self[2]) = RAdd(Get(inv0, self[2]), One)
          /\ Get(inventory, "Coal") = RSub(Get(inv0, "Coal"), F(1, 4))

\* a coal drill turned exactly 1/4 coal into 1 iron ore in 20 ticks
C5_Witness ==
    /\ nticks = 20
    /\ self = CoalDrill("IronOre")
    /\ tick_rate = F(1, 20)
    /\ Get(inv0, "Coal") = F(1, 4)
    /\ Get(inventory, "Coal") = Zero
    /\ Get(inventory, "IronOre") = RAdd(Get(inv0, "IronOre"), One)

----------------------------------------------------------------------------
(* ores.rs: OreMinigame *)

\* (1..=difficulty).collect(): the values in ascending order
vec(difficulty) == [i \in 1 .. difficulty |-> i]

\* (1..=difficulty).collect() followed by vec.shuffle(&mut rng): any order
Shuffles(difficulty) == Perms(1 .. difficulty)

\* mutant: the session is made as OreMinigame::default makes it, with
\* difficulty 5
new_default(difficulty, shuffled) ==
    [order |-> shuffled, next |-> 1, difficulty |-> 5, failed |-> FALSE]

\* OreMinigame::new, `shuffled` being what the shuffle produced
new(difficulty, shuffled) ==
    [order |-> shuffled, next |-> 1, difficulty |-> difficulty, failed |-> FALSE]

\* mutant: every button stays active
ButtonAlwaysEnabled(m, value) == TRUE

\* ui.add_enabled(value >= &self.next, ..): a button already clicked is
\* rendered inactive, and an inactive button reports no click
ButtonEnabled(m, value) == value >= m.next

\* OreMinigame::ui from the i-th button on; `click` is the value whose button
\* is under the pointer click of this frame, 0 when nothing is clicked
RECURSIVE ui_from(_, _, _)
ui_from(m, click, i) ==
    IF i > Len(m.order) THEN m
    ELSE LET value == m.order[i]
             clicked == ButtonEnabled(m, value) /\ click = value
             m2 == IF clicked
                   THEN IF value = m.next
                        THEN [m EXCEPT !.next = @ + 1]
                        ELSE [m EXCEPT !.failed = TRUE]
                   ELSE m
         IN  ui_from(m2, click, i + 1)

\* mutant: the button accepted is the one displayed at position `next`
ui_by_position(m, click) ==
    LET at == CHOOSE i \in 1 .. Len(m.order) : m.order[i] = click
    IN  IF click = 0 \/ ~ ButtonEnabled(m, click) THEN m
        ELSE IF at = m.next THEN [m EXCEPT !.next = @ + 1]
             ELSE [m EXCEPT !.failed = TRUE]

\* mutant: a click on any active button is accepted as the next value
ui_lenient(m, click) ==
    IF click = 0 \/ ~ ButtonEnabled(m, click) THEN m
    ELSE [m EXCEPT !.next = @ + 1]

\* OreMinigame::ui
ui(m, click) == ui_from(m, click, 1)

\* OreMinigame::is_failed
is_failed(m) == m.failed

\* OreMinigame::is_solved
is_solved(m) == m.next > m.difficulty

\* mutant: reset falls back to the default session, of difficulty 5
reset_to_default(m, shuffled) == new(5, shuffled)

\* OreMinigame::reset
reset(m, shuffled) == new(m.difficulty, shuffled)

\* mutant: a failed session is reshuffled but keeps the presses accepted
reset_if_failed_keeps_next(m, shuffled) ==
    IF is_failed(m) THEN [new(m.difficulty, shuffled) EXCEPT !.next = m.next]
    ELSE m

\* OreMinigame::reset_if_failed
reset_if_failed(m, shuffled) == IF is_failed(m) THEN reset(m, shuffled) ELSE m

\* mutant: a solved session is left as it is
reset_if_solved_never(m, shuffled) == m

\* OreMinigame::reset_if_solved
reset_if_solved(m, shuffled) == IF is_solved(m) THEN reset(m, shuffled) ELSE m

----------------------------------------------------------------------------
(* SpecOre: one OreMinigame and the calls of its methods, in any order *)

\* the largest difficulty of the catalog (GoldOre): sessions are created
\* with every difficulty from 0 (Money) up to it
MaxDifficulty == 5

\* what a call started from, without the displayed order
Summary(m) == [next |-> m.next, difficulty |-> m.difficulty, failed |-> m.failed]

\* history of the clicks since the session was created or reset: whether the
\* k-th click was on value k for every click so far, and how many there were
FreshStats == [asc |-> TRUE, npress |-> 0]
Clicked(st, click) ==
    IF click = 0 THEN st
    ELSE IF st.asc /\ click = st.npress + 1
         THEN [st EXCEPT !.npress = @ + 1]
         ELSE [asc |-> FALSE, npress |-> 0]

InitOre ==
    /\ \E d \in 0 .. MaxDifficulty : \E shuffled \in Shuffles(d) :
          om = new(d, shuffled)
    /\ before = Summary(om)
    /\ last = [op |-> "new", click |-> 0]
    /\ stats = FreshStats
    /\ inventory = <<>>
    /\ inv0 = <<>>
    /\ elements = <<>>
    /\ ore_minigames = <<>>
    /\ self = None
    /\ tick_rate = Zero
    /\ nticks = 0
    /\ IdleApp
    /\ IdleEnv

OreFrame == <<inventory, inv0, elements, ore_minigames, self, tick_rate,
              nticks, appVars, envVars>>

\* om.ui(ui): a frame renders the buttons; the player clicks one or none
OreUi ==
    /\ \E click \in 0 .. om.difficulty :
          /\ om' = ui(om, click)
          /\ last' = [op |-> "ui", click |-> click]
          /\ stats' = Clicked(stats, click)
    /\ before' = Summary(om)
    /\ UNCHANGED OreFrame

\* om.reset()
OreReset ==
    /\ \E shuffled \in Shuffles(om.difficulty) : om' = reset(om, shuffled)
    /\ last' = [op |-> "reset", click |-> 0]
    /\ stats' = FreshStats
    /\ before' = Summary(om)
    /\ UNCHANGED OreFrame

\* om.reset_if_failed()
OreResetIfFailed ==
    /\ IF is_failed(om)
       THEN \E shuffled \in Shuffles(om.difficulty) :
               om' = reset_if_failed(om, shuffled)
       ELSE om' = reset_if_failed(om, om.order)
    /\ last' = [op |-> "reset_if_failed", click |-> 0]
    /\ stats' = IF is_failed(om) THEN FreshStats ELSE stats
    /\ before' = Summary(om)
    /\ UNCHANGED OreFrame

\* om.reset_if_solved()
OreResetIfSolved ==
    /\ IF is_solved(om)
       THEN \E shuffled \in Shuffles(om.difficulty) :
               om' = reset_if_solved(om, shuffled)
       ELSE om' = reset_if_solved(om, om.order)
    /\ last' = [op |-> "reset_if_solved", click |-> 0]
    /\ stats' = IF is_solved(om) THEN FreshStats ELSE stats
    /\ before' = Summary(om)
    /\ UNCHANGED OreFrame

NextOre == OreUi \/ OreReset \/ OreResetIfFailed \/ OreResetIfSolved

SpecOre == InitOre /\ [][NextOre]_vars

----------------------------------------------------------------------------
(* Claims about the OreMinigame session *)

IsPermutation(order, d) ==
    /\ Len(order) = d
    /\ {order[i] : i \in 1 .. Len(order)} = 1 .. d

\* C7: from a freshly created or reset session of difficulty d >= 1,
\* pressing 1, 2, ..., d in ascending order never fails, is_solved() is true
\* exactly after the d-th press and false after fewer.
C7_AscendingSolves ==
    (stats.asc /\ om.difficulty >= 1) =>
        /\ ~ is_failed(om)
        /\ stats.npress <= om.difficulty
        /\ is_solved(om) <=> stats.npress = om.difficulty

\* five ascending presses on a shuffled display solved the session
C7_Witness ==
    /\ stats.asc
    /\ stats.npress = 5
    /\ om.difficulty = 5
    /\ om.order = <<3, 1, 5, 2, 4>>
    /\ is_solved(om)
    /\ last.op = "ui"

\* C8: in an in-progress session, a press of a displayed value v different
\* from next marks the session failed and does not advance next, also after
\* several correct presses.  A press is a click the button reports.
C8_WrongPressFails ==
    (/\ last.op = "ui"
     /\ last.click # 0
     /\ last.click >= before.next
     /\ last.click # before.next
     /\ ~ before.failed
     /\ before.next <= before.difficulty) =>
        /\ is_failed(om)
        /\ om.next = before.next

\* after 1 and 2 were accepted, a press of 5 failed the session
C8_Witness ==
    /\ last = [op |-> "ui", click |-> 5]
    /\ before = [next |-> 3, difficulty |-> 5, failed |-> FALSE]
    /\ is_failed(om)
    /\ om.next = 3

\* C9 as stated: re-pressing a value already accepted in the session
\* (v < next) is a press event that makes the session Failed.
C9_RepressFails ==
    (last.op = "ui" /\ last.click # 0 /\ last.click < before.next) =>
        is_failed(om)

\* C9 (amended): a value already accepted in the session (v < next) cannot
\* be pressed again: its button is inactive, a click on it is no press event
\* and leaves next, failed and difficulty as they were.
C9_RepressIgnored ==
    (last.op = "ui" /\ last.click # 0 /\ last.click < before.next) =>
        Summary(om) = before

\* after 1 and 2 were accepted, a click on 1 left the session in progress
C9_Witness ==
    /\ last = [op |-> "ui", click |-> 1]
    /\ before = [next |-> 3, difficulty |-> 3, failed |-> FALSE]
    /\ ~ is_failed(om)
    /\ om.next = 3

\* C10: reset on a session in any state (solved, failed or in progress)
\* yields next = 1, failed = false, an order that is a permutation of
\* 1..difficulty and the difficulty the session had.
C10_Reset ==
    last.op = "reset" =>
        /\ om.next = 1
        /\ ~ om.failed
        /\ om.difficulty = before.difficulty
        /\ IsPermutation(om.order, before.difficulty)

\* a solved and failed session of difficulty 4 was reset to a shuffled order
C10_Witness ==
    /\ last.op = "reset"
    /\ before = [next |-> 5, difficulty |-> 4, failed |-> TRUE]
    /\ om = new(4, <<2, 4, 1, 3>>)

----------------------------------------------------------------------------
(* mod.rs: GameState::default and IdleGame::update *)

\* Display for Good: properties().name
GoodName(good) ==
    CASE good = "Money" -> "Money"
      [] good = "IronOre" -> "Iron Ore"
      [] good = "GoldOre" -> "Gold Ore"
      [] good = "SilverOre" -> "Silver Ore"
      [] good = "Coal" -> "Coal"

\* let tick_rate = F::new(1, 20); let tick_limit = 100;
TickRate == F(1, 20)
tick_limit == 100

Sections == {"Summary", "Metallurgy"}

Some(i) == <<i>>

\* The frame specifications keep a session as its Summary: next, difficulty
\* and failed.  A frame reads the order of a session to lay out its buttons
\* and writes it when it resets the session (vec.shuffle); the value a
\* press carries is compared with next.  What a frame does to a session
\* kept as s is therefore computed on every session Displays(s) that s
\* stands for, the buttons in any order of 1..difficulty as
\* OreMinigame::new and reset leave them, and with every order a reset of
\* the frame can shuffle: each outcome is a successor of the frame.
Displayed(s, shuffled) ==
    [order |-> shuffled, next |-> s.next, difficulty |-> s.difficulty,
     failed |-> s.failed]
Displays(s) == {Displayed(s, shuffled) : shuffled \in Shuffles(s.difficulty)}

\* the sessions OreMinigame::new can make for ore: one for every outcome of
\* vec.shuffle
NewSessions(ore) ==
    {new(Difficulty(ore), shuffled) : shuffled \in Shuffles(Difficulty(ore))}

\* the ore_minigames GameState::default can make, as they are kept: for
\* each ore a session OreMinigame::new made, over every outcome of the
\* shuffles
DefaultOreMinigames ==
    {made \in [Ores -> UNION {{Summary(m) : m \in NewSessions(ore)} :
                                 ore \in Ores}] :
        \A ore \in Ores : made[ore] \in {Summary(m) : m \in NewSessions(ore)}}

\* mutant: the inventory starts as a blank HashMap
GameStateDefault_blank(made) ==
    [inventory |-> [g \in {} |-> F(0, 1)],
     ore_minigames |-> made,
     elements |-> <<>>]

\* GameState::default; made[ore] is the session OreMinigame::new made for ore
GameStateDefault(made) ==
    [inventory |-> [g \in Goods |-> F(0, 1)],
     ore_minigames |-> made,
     elements |-> <<>>]

\* the game states GameState::default can make
DefaultGameStates == {GameStateDefault(made) : made \in DefaultOreMinigames}

\* elements.insert(key, element) and elements.remove(&key)
Insert(elems, key, element) ==
    [i \in DOMAIN elems \cup {key} |-> IF i = key THEN element ELSE elems[i]]
Remove(elems, key) == [i \in DOMAIN elems \ {key} |-> elems[i]]

\* timestamps and the durations between them are counted in microseconds
\* (chrono keeps nanoseconds; the clock of a browser has whole milliseconds)
Ms == 1000

\* Duration::num_milliseconds: the whole milliseconds of a duration, the
\* rest of it cut off
num_milliseconds(duration) ==
    IF duration >= 0 THEN duration \div Ms ELSE -((-duration) \div Ms)

\* mutant: the time between two frames is counted in whole seconds
time_passed_whole_seconds(prev, timer, now) ==
    [prev_time |-> now,
     game_timer |-> RAdd(timer, F(num_milliseconds(now - prev) \div 1000, 1))]

\* the head of update: millis_passed = (now - prev_time).num_milliseconds()
\* is added to the timer as seconds, and prev_time becomes now
time_passed(prev, timer, now) ==
    [prev_time |-> now,
     game_timer |-> RAdd(timer, F(num_milliseconds(now - prev), 1000))]

\* one iteration of the catch-up loop:
\* game_state.tick(&tick_rate); game_timer -= tick_rate; ticks += 1
loop_body(elems, order, l) ==
    [inventory |-> GameStateTick(elems, l.inventory, TickRate, order),
     game_timer |-> RSub(l.game_timer, TickRate),
     ticks |-> l.ticks + 1]

\* mutant: a tick needs more than a tick's worth on the timer
RECURSIVE while_strict(_, _, _, _)
while_strict(elems, order, l, n) ==
    IF ~(RLt(TickRate, l.game_timer) /\ l.ticks < tick_limit) THEN l
    ELSE IF n = 1 THEN loop_body(elems, order, l)
    ELSE CHOOSE r \in {while_strict(elems, order, m, n - n \div 2) :
                          m \in {while_strict(elems, order, l, n \div 2)}} : TRUE

catch_up_strict(elems, order, inv, timer, ticks) ==
    while_strict(elems, order,
                 [inventory |-> inv, game_timer |-> timer, ticks |-> ticks],
                 tick_limit)

\* while self.game_timer >= tick_rate && ticks < tick_limit { .. }: the
\* values of the inventory, the timer and the tick counter after at most n
\* more iterations from the values l. The loop stops for good the first
\* time its condition fails; n iterations are the first n \div 2 of them
\* followed by the rest.
RECURSIVE while(_, _, _, _)
while(elems, order, l, n) ==
    IF ~(RLe(TickRate, l.game_timer) /\ l.ticks < tick_limit) THEN l
    ELSE IF n = 1 THEN loop_body(elems, order, l)
    ELSE CHOOSE r \in {while(elems, order, m, n - n \div 2) :
                          m \in {while(elems, order, l, n \div 2)}} : TRUE

\* mutant: when the limit stops the loop, the whole ticks left on the timer
\* are dropped
catch_up_drops(elems, order, inv, timer, ticks) ==
    LET l == while(elems, order,
                   [inventory |-> inv, game_timer |-> timer, ticks |-> ticks],
                   tick_limit)
    IN  IF RLe(TickRate, l.game_timer)
        THEN [l EXCEPT !.game_timer =
                 RSub(@, RMul(F(RFloor(RDiv(@, TickRate)), 1), TickRate))]
        ELSE l

\* the catch-up loop of update, begun with let mut ticks = 0: the counter
\* lets the loop run tick_limit iterations at most
catch_up(elems, order, inv, timer, ticks) ==
    while(elems, order,
          [inventory |-> inv, game_timer |-> timer, ticks |-> ticks],
          tick_limit)

\* the input of a frame: the one widget the player clicks, if any; target
\* is the ore or the section of the widget, value the number on a minigame
\* button or the slider, id the key of the element
Event(op, target, value, id) ==
    [op |-> op, target |-> target, value |-> value, id |-> id]
NoClick == Event("none", "Money", 0, 0)

\* mutant: the session is reset before the reward is granted
minigame_frame_reset_first(m, click, shuffled) ==
    LET m1 == ui(m, click)
        m2 == reset_if_failed(m1, shuffled)
        m3 == reset_if_solved(m2, shuffled)
    IN  [om |-> m3, granted |-> is_solved(m3),
         solved |-> is_solved(m1) /\ ~ is_solved(m),
         failed |-> is_failed(m1)]

\* om.ui(ui).reset_if_failed().do_if_solved(|_| ..).reset_if_solved():
\* the session after the chain, whether do_if_solved ran its closure, and
\* whether the click of this frame solved or failed the session
minigame_frame(m, click, shuffled) ==
    LET m1 == ui(m, click)
        m2 == reset_if_failed(m1, shuffled)
        granted == is_solved(m2)
        m3 == reset_if_solved(m2, shuffled)
    IN  [om |-> m3, granted |-> granted,
         solved |-> is_solved(m1) /\ ~ is_solved(m),
         failed |-> is_failed(m1)]

\* the orders vec.shuffle can produce in the chain of a frame: any order,
\* when the click fails or solves the session and the chain resets it; the
\* chain shuffles nothing otherwise
ChainShuffles(m, click) ==
    LET m1 == ui(m, click)
    IN  IF is_failed(m1) \/ is_solved(m1) THEN Shuffles(m.difficulty)
        ELSE {m.order}

\* the outcomes of the chain of a frame on a session that is one of ms, over
\* every order a reset can shuffle: the session it leaves, as it is kept,
\* and whether that is the very session it started from (order, next,
\* difficulty, failed)
minigame_frames(ms, click) ==
    UNION {{[om |-> Summary(chain.om), granted |-> chain.granted,
             solved |-> chain.solved, failed |-> chain.failed,
             kept |-> chain.om = m] :
               chain \in {minigame_frame(m, click, shuffled) :
                             shuffled \in ChainShuffles(m, click)}} :
           m \in ms}

\* the sessions in progress, as they are kept
InProgress ==
    UNION {[next : 1 .. Difficulty(ore), difficulty : {Difficulty(ore)},
            failed : {FALSE}] : ore \in Ores}

\* the chain on the sessions in progress, for every click: computed once
in_progress == [s \in InProgress, click \in 0 .. MaxDifficulty |->
                   minigame_frames(Displays(s), click)] @@ <<>>

\* the outcomes of the chain of a frame on a session kept as s, in every
\* order it can be displayed in
chains(s, click) ==
    IF s \in InProgress /\ click \in 0 .. MaxDifficulty
    THEN in_progress[s, click]
    ELSE minigame_frames(Displays(s), click)

\* mutant: a press reaches the session of every ore
RECURSIVE metallurgy_from_any_ore(_, _, _, _)
metallurgy_from_any_ore(i, inv, oms, ev) ==
    IF i > Len(group_iter("Ore"))
    THEN {[inventory |-> inv, ore_minigames |-> oms, granted |-> {},
           solved |-> {}, failed |-> {}, kept |-> {}]}
    ELSE LET ore == group_iter("Ore")[i]
             \* ore_minigames.entry(ore).or_insert(OreMinigame::new(..))
             s == IF ore \in DOMAIN oms THEN oms[ore]
                  ELSE CHOOSE made \in {Summary(m) : m \in NewSessions(ore)} :
                           TRUE
             click == IF ev.op = "press" THEN ev.value ELSE 0
         IN  UNION {
               {[rest EXCEPT
                   !.granted = IF chain.granted THEN @ \cup {ore} ELSE @,
                   !.solved = IF chain.solved THEN @ \cup {ore} ELSE @,
                   !.failed = IF chain.failed THEN @ \cup {ore} ELSE @,
                   !.kept = IF chain.kept THEN @ \cup {ore} ELSE @] :
                  rest \in metallurgy_from_any_ore(
                      i + 1,
                      \* the closure:
                      \* inventory.entry(ore).and_modify(+= 1).or_insert(1)
                      IF chain.granted THEN Credit(inv, ore, F(1, 1)) ELSE inv,
                      [o \in DOMAIN oms \cup {ore} |->
                          IF o = ore THEN chain.om ELSE oms[o]],
                      ev)} :
               chain \in chains(s, click)}

\* the Metallurgy tab: the loop over the ores, from the i-th ore on, on the
\* sessions kept as oms: every outcome, each telling which ores were
\* rewarded, solved and failed and which sessions were left as they were
RECURSIVE metallurgy_from(_, _, _, _)
metallurgy_from(i, inv, oms, ev) ==
    IF i > Len(group_iter("Ore"))
    THEN {[inventory |-> inv, ore_minigames |-> oms, granted |-> {},
           solved |-> {}, failed |-> {}, kept |-> {}]}
    ELSE LET ore == group_iter("Ore")[i]
             \* ore_minigames.entry(ore).or_insert(OreMinigame::new(..))
             s == IF ore \in DOMAIN oms THEN oms[ore]
                  ELSE CHOOSE made \in {Summary(m) : m \in NewSessions(ore)} :
                           TRUE
             click == IF ev.op = "press" /\ ev.target = ore THEN ev.value ELSE 0
         IN  UNION {
               {[rest EXCEPT
                   !.granted = IF chain.granted THEN @ \cup {ore} ELSE @,
                   !.solved = IF chain.solved THEN @ \cup {ore} ELSE @,
                   !.failed = IF chain.failed THEN @ \cup {ore} ELSE @,
                   !.kept = IF chain.kept THEN @ \cup {ore} ELSE @] :
                  rest \in metallurgy_from(
                      i + 1,
                      \* the closure:
                      \* inventory.entry(ore).and_modify(+= 1).or_insert(1)
                      IF chain.granted THEN Credit(inv, ore, F(1, 1)) ELSE inv,
                      [o \in DOMAIN oms \cup {ore} |->
                          IF o = ore THEN chain.om ELSE oms[o]],
                      ev)} :
               chain \in chains(s, click)}

\* mutant: the window ids are made without the key of the element
summary_tab_unnumbered(inv, elems, timer, slider, ev) ==
    LET next_id == Cardinality(DOMAIN elems)
        debug_amt == F(slider, 1)
    IN  [inventory |->
            CASE ev.op = "add_dollars" -> Credit(inv, "Money", debug_amt)
              [] ev.op = "add_ore" -> Credit(inv, ev.target, debug_amt)
              [] OTHER -> inv,
         elements |->
            CASE ev.op = "add_blank" ->
                   Insert(elems, next_id,
                          Element(Blank, "Blank", TRUE))
              [] ev.op = "add_gravity" ->
                   Insert(elems, next_id,
                          Element(ProducerElem(GravityDrill(ev.target)),
                                  GoodName(ev.target)
                                      \o " Gravity Drill",
                                  FALSE))
              [] ev.op = "add_coal" ->
                   Insert(elems, next_id,
                          Element(ProducerElem(CoalDrill(ev.target)),
                                  GoodName(ev.target)
                                      \o " Coal Drill",
                                  FALSE))
              [] OTHER -> elems,
         game_timer |->
            IF ev.op = "add_seconds" THEN RAdd(timer, F(slider, 1)) ELSE timer,
         assigned |->
            IF ev.op \in {"add_blank", "add_gravity", "add_coal"}
            THEN Some(next_id) ELSE NoIndex]

\* the Summary tab: the debug buttons; `assigned` is the key an element was
\* inserted under in this frame, if one was
summary_tab(inv, elems, timer, slider, ev) ==
    LET next_id == Cardinality(DOMAIN elems)
        debug_amt == F(slider, 1)
    IN  [inventory |->
            CASE ev.op = "add_dollars" -> Credit(inv, "Money", debug_amt)
              [] ev.op = "add_ore" -> Credit(inv, ev.target, debug_amt)
              [] OTHER -> inv,
         elements |->
            CASE ev.op = "add_blank" ->
                   Insert(elems, next_id,
                          Element(Blank, "Blank " \o ToString(next_id), TRUE))
              [] ev.op = "add_gravity" ->
                   Insert(elems, next_id,
                          Element(ProducerElem(GravityDrill(ev.target)),
                                  ToString(next_id) \o ": " \o GoodName(ev.target)
                                      \o " Gravity Drill",
                                  FALSE))
              [] ev.op = "add_coal" ->
                   Insert(elems, next_id,
                          Element(ProducerElem(CoalDrill(ev.target)),
                                  ToString(next_id) \o ": " \o GoodName(ev.target)
                                      \o " Coal Drill",
                                  FALSE))
              [] OTHER -> elems,
         game_timer |->
            IF ev.op = "add_seconds" THEN RAdd(timer, F(slider, 1)) ELSE timer,
         assigned |->
            IF ev.op \in {"add_blank", "add_gravity", "add_coal"}
            THEN Some(next_id) ELSE NoIndex]

\* whether the widget of event ev is on screen and active in this frame.
\* The rows of the producers panel are built before the element marked for
\* deletion is removed and the windows after it; the Metallurgy tab makes
\* the session an ore lacks before it builds the buttons, one per value of
\* its order, and a button is active while its value is not below next
CanClick(ev) ==
    CASE ev.op \in {"none", "reset"} -> TRUE
      [] ev.op \in {"toggle", "delete"} ->
           ev.id \in DOMAIN elements /\ elements[ev.id].variant[1] = "Producer"
      [] ev.op = "close" ->
           /\ ev.id \in DOMAIN elements
           /\ elements[ev.id].is_open
           /\ producer_index_marked_for_deletion # Some(ev.id)
      [] ev.op = "select" -> ev.target \in Sections
      [] ev.op = "slider" ->
           selection = "Summary" /\ ev.value \in -1000 .. 1000
      [] ev.op \in {"add_blank", "add_seconds", "add_dollars"} ->
           selection = "Summary"
      [] ev.op \in {"add_ore", "add_gravity", "add_coal"} ->
           selection = "Summary" /\ ev.target \in Ores
      [] ev.op = "press" ->
           /\ selection = "Metallurgy"
           /\ ev.target \in Ores
           /\ {m \in IF ev.target \in DOMAIN ore_minigames
                      THEN Displays(ore_minigames[ev.target])
                      ELSE NewSessions(ev.target) :
                    /\ \E i \in 1 .. Len(m.order) : m.order[i] = ev.value
                    /\ ButtonEnabled(m, ev.value)} # {}

\* top panel: the Reset button replaces the game state by
\* GameState::default(), whose sessions are shuffled anew: every outcome
top_panel(inv, ev) ==
    IF ev.op = "reset" THEN DefaultGameStates
    ELSE {[inventory |-> inv, ore_minigames |-> ore_minigames,
           elements |-> elements]}

\* mutant: the X marks the producer and the removal is left to a later frame
producers_panel_deferred(elems, ev) ==
    LET toggled == IF ev.op = "toggle"
                   THEN [elems EXCEPT ![ev.id].is_open = ~ @]
                   ELSE elems
    IN  IF ev.op = "delete"
        THEN [elements |-> toggled, marked |-> Some(ev.id),
              removed |-> NoIndex]
        ELSE IF producer_index_marked_for_deletion # NoIndex
        THEN [elements |-> Remove(toggled, producer_index_marked_for_deletion[1]),
              marked |-> NoIndex,
              removed |-> producer_index_marked_for_deletion]
        ELSE [elements |-> toggled, marked |-> NoIndex, removed |-> NoIndex]

\* producers panel: the open/close toggle and the X of each producer, then
\* if let Some(i) = producer_index_marked_for_deletion: remove and clear;
\* `removed` is the key handed to elements.remove in this frame, if any
producers_panel(elems, ev) ==
    LET toggled == IF ev.op = "toggle"
                   THEN [elems EXCEPT ![ev.id].is_open = ~ @]
                   ELSE elems
        marked == IF ev.op = "delete" THEN Some(ev.id)
                  ELSE producer_index_marked_for_deletion
    IN  IF marked # NoIndex
        THEN [elements |-> Remove(toggled, marked[1]), marked |-> NoIndex,
              removed |-> marked]
        ELSE [elements |-> toggled, marked |-> marked, removed |-> NoIndex]

\* element windows: the close button of an open window
element_windows(elems, ev) ==
    IF ev.op = "close" THEN [elems EXCEPT ![ev.id].is_open = FALSE] ELSE elems

\* central panel: the section selector, then the tab of the selected
\* section: every outcome
central_panel(inv, oms, elems, timer, ev) ==
    LET sel == IF ev.op = "select" THEN ev.target ELSE selection
        slider == IF ev.op = "slider" THEN ev.value ELSE debug_amt_slider
        summary == summary_tab(inv, elems, timer, slider, ev)
    IN  IF sel = "Summary"
        THEN {[selection |-> sel, debug_amt_slider |-> slider,
               inventory |-> summary.inventory, elements |-> summary.elements,
               game_timer |-> summary.game_timer, ore_minigames |-> oms,
               granted |-> {}, solved |-> {}, failed |-> {},
               kept |-> DOMAIN oms, assigned |-> summary.assigned]}
        ELSE {[selection |-> sel, debug_amt_slider |-> debug_amt_slider,
               inventory |-> metallurgy.inventory, elements |-> elems,
               game_timer |-> timer,
               ore_minigames |-> metallurgy.ore_minigames,
               granted |-> metallurgy.granted, solved |-> metallurgy.solved,
               failed |-> metallurgy.failed, kept |-> metallurgy.kept,
               assigned |-> NoIndex] :
                 metallurgy \in metallurgy_from(1, inv, oms, ev)}

\* the record of a frame kept in `last`: the click (op, target, id), the ticks
\* the catch-up loop ran, the ores rewarded, solved and failed, the ores
\* whose session the frame left as it was (kept: none when Reset made the
\* game state anew), the key an
\* element was inserted under and the key removed, prev_time before the
\* frame (since) and the timestamp of the frame (now), game_timer before
\* the frame (timer), after the elapsed time was added (balance) and after
\* the loop (left).  FrameRecord(t) is the record before the first frame of
\* a game started at time t.
FrameRecord(t) ==
    [op |-> "none", target |-> "Money", id |-> 0, ticks |-> 0, granted |-> {},
     solved |-> {}, failed |-> {}, kept |-> Ores,
     assigned |-> NoIndex, removed |-> NoIndex,
     since |-> t, now |-> t, timer |-> Zero, balance |-> Zero, left |-> Zero]

\* mutant: the panels are handled before the catch-up loop, which then runs
\* on the elements and the inventory they left
Update_panels_first(elapsed, order, ev) ==
    /\ CanClick(ev)
    /\ \E head \in {time_passed(prev_time, game_timer, prev_time + elapsed)} :
       \E gs1 \in top_panel(inventory, ev) :
       \E panel \in {producers_panel(gs1.elements, ev)} :
       \E elems \in {element_windows(panel.elements, ev)} :
       \E f \in central_panel(gs1.inventory, gs1.ore_minigames, elems,
                              head.game_timer, ev) :
       \E order2 \in {SelectSeq(order, LAMBDA k : k \in DOMAIN f.elements)
                        \o (IF f.assigned = NoIndex
                               \/ f.assigned[1] \in DOMAIN elements
                            THEN <<>> ELSE f.assigned)} :
       \E loop \in {catch_up(f.elements, order2, f.inventory, f.game_timer, 0)} :
          /\ prev_time' = head.prev_time
          /\ producer_index_marked_for_deletion' = panel.marked
          /\ selection' = f.selection
          /\ inventory' = loop.inventory
          /\ elements' = f.elements
          /\ game_timer' = loop.game_timer
          /\ debug_amt_slider' = f.debug_amt_slider
          /\ ore_minigames' = f.ore_minigames
          /\ last' = [op |-> ev.op, target |-> ev.target, id |-> ev.id,
                      ticks |-> loop.ticks,
                      granted |-> f.granted, solved |-> f.solved,
                      failed |-> f.failed,
                      kept |-> IF ev.op = "reset" THEN {} ELSE f.kept,
                      assigned |-> f.assigned, removed |-> panel.removed,
                      since |-> prev_time, now |-> prev_time + elapsed,
                      timer |-> game_timer, balance |-> head.game_timer,
                      left |-> loop.game_timer]
          /\ stats' =
               [granted |-> [o \in Ores |->
                    stats.granted[o] + (IF o \in f.granted THEN 1 ELSE 0)],
                solved |-> [o \in Ores |->
                    stats.solved[o] + (IF o \in f.solved THEN 1 ELSE 0)]]
          /\ before' = gs1.inventory
    /\ UNCHANGED <<self, tick_rate, om, inv0, nticks, storage>>

\* IdleGame::update: one frame.  elapsed: microseconds from prev_time to now;
\* order: the iteration order of the elements map; ev: the click of the
\* frame.  The shuffles of the frame take every outcome (top_panel,
\* central_panel).
\* Each part of the frame is computed once, from the result of the part
\* before it.  before, last and stats record the inventory the central
\* panel started from, the click and its effects (see FrameRecord), and the
\* number of rewards and solutions per ore.
Update(elapsed, order, ev) ==
    /\ CanClick(ev)
    /\ \E head \in {time_passed(prev_time, game_timer, prev_time + elapsed)} :
       \E loop \in {catch_up(elements, order, inventory, head.game_timer, 0)} :
       \E gs1 \in top_panel(loop.inventory, ev) :
       \E panel \in {producers_panel(gs1.elements, ev)} :
       \E elems \in {element_windows(panel.elements, ev)} :
       \E f \in central_panel(gs1.inventory, gs1.ore_minigames, elems,
                              loop.game_timer, ev) :
          /\ prev_time' = head.prev_time
          /\ producer_index_marked_for_deletion' = panel.marked
          /\ selection' = f.selection
          /\ inventory' = f.inventory
          /\ elements' = f.elements
          /\ game_timer' = f.game_timer
          /\ debug_amt_slider' = f.debug_amt_slider
          /\ ore_minigames' = f.ore_minigames
          /\ last' = [op |-> ev.op, target |-> ev.target, id |-> ev.id,
                      ticks |-> loop.ticks,
                      granted |-> f.granted, solved |-> f.solved,
                      failed |-> f.failed,
                      kept |-> IF ev.op = "reset" THEN {} ELSE f.kept,
                      assigned |-> f.assigned, removed |-> panel.removed,
                      since |-> prev_time, now |-> prev_time + elapsed,
                      timer |-> game_timer, balance |-> head.game_timer,
                      left |-> loop.game_timer]
          /\ stats' =
               [granted |-> [o \in Ores |->
                    stats.granted[o] + (IF o \in f.granted THEN 1 ELSE 0)],
                solved |-> [o \in Ores |->
                    stats.solved[o] + (IF o \in f.solved THEN 1 ELSE 0)]]
          /\ before' = gs1.inventory
    /\ UNCHANGED <<self, tick_rate, om, inv0, nticks, storage>>

----------------------------------------------------------------------------
(* SpecMine: frames of IdleGame::update in which the player switches tabs, *)
(* presses minigame buttons or adds a gravity drill                        *)

\* sessions the player solves in a behaviour
MaxSolved == 2
\* drills the player adds
MaxDrills == 1
\* frames in which time passes
MaxClock == 2

\* the ore whose minigame the player plays
MineOres == {"IronOre"}
\* the ore of the gravity drills the player adds: the one that is played
DrillOres == {"IronOre"}

\* time between two frames: none, a tick
MineElapsed == {0, 50 * Ms}

Total(count) == count["IronOre"] + count["GoldOre"] + count["SilverOre"]
                    + count["Coal"]

\* IdleGame::default, at time 0
InitMine ==
    /\ \E gs \in DefaultGameStates :
          /\ inventory = gs.inventory
          /\ ore_minigames = gs.ore_minigames
          /\ elements = gs.elements
    /\ prev_time = 0
    /\ game_timer = F(0, 1)
    /\ producer_index_marked_for_deletion = NoIndex
    /\ selection = "Summary"
    /\ debug_amt_slider = 100
    /\ before = inventory
    /\ inv0 = inventory
    /\ last = FrameRecord(0)
    /\ stats = [granted |-> [o \in Ores |-> 0], solved |-> [o \in Ores |-> 0]]
    /\ self = None
    /\ tick_rate = TickRate
    /\ om = <<>>
    /\ nticks = 0
    /\ IdleEnv

\* a frame of SpecMine with click ev
MineFrame(ev) ==
    \E elapsed \in MineElapsed : \E order \in Perms(DOMAIN elements) :
        /\ prev_time + elapsed <= MaxClock * 50 * Ms
        /\ Update(elapsed, order, ev)
        /\ UNCHANGED hist

\* a frame without a click
MineIdle == MineFrame(NoClick)

\* a click on the Summary or the Metallurgy tab
MineSelect ==
    \E section \in Sections :
        MineFrame(Event("select", section, 0, 0))

\* a click on a button of an ore's minigame
MinePress ==
    \E ore \in MineOres : \E value \in 1 .. Difficulty(ore) :
        /\ Total(stats.solved) < MaxSolved
        /\ MineFrame(Event("press", ore, value, 0))

\* a click on "Debug: Add <ore> gravity drill"
MineAddDrill ==
    \E ore \in DrillOres :
        /\ Cardinality(DOMAIN elements) < MaxDrills
        /\ MineFrame(Event("add_gravity", ore, 0, 0))

NextMine == MineIdle \/ MineSelect \/ MinePress \/ MineAddDrill

SpecMine == InitMine /\ [][NextMine]_vars

----------------------------------------------------------------------------
(* Claim about the reward of the minigames, under SpecMine *)

\* C6: for each ore, the balance grows by exactly 1 for every session that
\* becomes solved, in the frame of the solving press and before the session
\* is reset, and the minigames change no balance otherwise: the closure of
\* do_if_solved ran for an ore in a frame exactly when the click of that
\* frame solved its session; the central panel of a frame adds 1 to the
\* balances of the ores solved in it and leaves every other balance as the
\* catch-up loop left it; a rewarded session has been reset; the units
\* granted for an ore equal the number of its solved sessions, and the
\* balance of a good that no drill mines is that number
C6_RewardOncePerSolve ==
    /\ last.granted = last.solved
    /\ \A g \in Goods :
          Get(inventory, g) = IF g \in last.solved
                              THEN RAdd(Get(before, g), One)
                              ELSE Get(before, g)
    /\ \A ore \in last.granted :
          /\ ore_minigames[ore].next = 1
          /\ ~ is_solved(ore_minigames[ore])
    /\ \A ore \in Ores : stats.granted[ore] = stats.solved[ore]
    /\ \A g \in Goods \ DrillOres :
          Get(inventory, g) = IF g \in Ores THEN F(stats.solved[g], 1) ELSE Zero

\* the press that solves the iron ore session a second time comes in a
\* frame in which a drill has mined iron ore: the balance is the one the
\* ticks left, the first unit and the mined amount, plus 1, and the session
\* is reset
C6_Witness ==
    /\ last.op = "press" /\ last.target = "IronOre"
    /\ last.solved = {"IronOre"}
    /\ last.ticks = 1
    /\ RLt(Zero, Get(before, "IronOre"))
    /\ inventory["IronOre"] = RAdd(before["IronOre"], One)
    /\ stats.granted["IronOre"] = 2
    /\ ore_minigames["IronOre"].next = 1

----------------------------------------------------------------------------
(* SpecRetry: frames in which the player presses minigame buttons, with    *)
(* a history of what the presses amount to                                 *)

\* the ores whose minigames the player plays
RetryOres == {"IronOre", "Coal"}

\* the history of SpecRetry, per ore: run, the presses accepted since the
\* session began; failed, whether a session of the ore has failed; lost,
\* the presses accepted in the session that failed last; solves, the number
\* of sessions completed
RetryStart ==
    [run |-> [o \in Ores |-> 0], failed |-> [o \in Ores |-> FALSE],
     lost |-> [o \in Ores |-> 0], solves |-> [o \in Ores |-> 0]]

\* the history after a press on `value` of `ore`, a value not accepted
\* before: the value after the run extends it, the last value of the ore
\* completes the session, any other value ends the run
Pressed(h, ore, value) ==
    IF value = h.run[ore] + 1
    THEN IF value = Difficulty(ore)
         THEN [h EXCEPT !.run[ore] = 0, !.solves[ore] = @ + 1]
         ELSE [h EXCEPT !.run[ore] = value]
    ELSE [h EXCEPT !.run[ore] = 0, !.failed[ore] = TRUE,
                   !.lost[ore] = h.run[ore]]

InitRetry ==
    /\ \E gs \in DefaultGameStates :
          /\ inventory = gs.inventory
          /\ ore_minigames = gs.ore_minigames
          /\ elements = gs.elements
    /\ prev_time = 0
    /\ game_timer = F(0, 1)
    /\ producer_index_marked_for_deletion = NoIndex
    /\ selection = "Summary"
    /\ debug_amt_slider = 100
    /\ before = inventory
    /\ inv0 = inventory
    /\ last = FrameRecord(0)
    /\ stats = [granted |-> [o \in Ores |-> 0], solved |-> [o \in Ores |-> 0]]
    /\ self = None
    /\ tick_rate = TickRate
    /\ om = <<>>
    /\ nticks = 0
    /\ storage = NoStorage
    /\ hist = RetryStart

\* a click on the Summary or the Metallurgy tab
RetrySelect ==
    \E section \in Sections :
        /\ Update(0, <<>>, Event("select", section, 0, 0))
        /\ UNCHANGED hist

\* a click on a button of an ore's minigame
RetryPress ==
    \E ore \in RetryOres : \E value \in 1 .. Difficulty(ore) :
            /\ Total(stats.solved) < MaxSolved
            /\ Update(0, <<>>, Event("press", ore, value, 0))
            /\ hist' = Pressed(hist, ore, value)

NextRetry == RetrySelect \/ RetryPress

SpecRetry == InitRetry /\ [][NextRetry]_vars

\* C11: a session that fails is reset in the frame of the failing press and
\* the inventory stays as it was; the presses accepted before the failure do
\* not count: every session stands at the number of presses accepted since
\* it began, so that after a failure the values 1..difficulty have to be
\* pressed in ascending order again; and each completed sequence grants
\* exactly 1 of the ore
C11_FailureStartsOver ==
    /\ \A ore \in last.failed :
          /\ \A g \in Goods : Get(inventory, g) = Get(before, g)
          /\ ore \notin last.granted
          /\ ore_minigames[ore].next = 1
          /\ ~ is_failed(ore_minigames[ore])
    /\ \A ore \in Ores :
          /\ ore_minigames[ore].next = hist.run[ore] + 1
          /\ stats.granted[ore] = hist.solves[ore]
          /\ Get(inventory, ore) = F(hist.solves[ore], 1)

\* the iron ore session failed after an accepted press, and the press that
\* completes 1, 2, 3 afterwards grants the first unit of iron ore
C11_Witness ==
    /\ hist.failed["IronOre"]
    /\ hist.lost["IronOre"] = 1
    /\ last.op = "press" /\ last.target = "IronOre"
    /\ last.solved = {"IronOre"}
    /\ hist.solves["IronOre"] = 1
    /\ inventory["IronOre"] = One
    /\ before["IronOre"] = Zero

----------------------------------------------------------------------------
(* SpecClock: frames at chosen times of the wall clock, the player using   *)
(* the "Debug: Add seconds" button, with a history of the time that passed *)

\* frames that put time on the timer: those in which time passed and
\* those with a click on "Debug: Add seconds"
MaxFrames == 2

\* time between two frames: none, 20.5 ms (less than a tick), 150 ticks,
\* 1000 ticks
ClockElapsed == {0, 20500, 7500 * Ms, 50000 * Ms}

\* values the player moves the slider to, from its first value of 100
ClockSliders == {-1}

\* the history of SpecClock: clock, the wall clock at the last frame, in
\* microseconds; since, the wall clock at the frame before it; millis, the
\* whole milliseconds the frames counted; ticks, the ticks run so far;
\* added, the seconds added by the debug button; adds and frames, the
\* numbers of such clicks and of frames in which time passed
ClockStart ==
    [clock |-> 0, since |-> 0, millis |-> 0, ticks |-> 0, added |-> Zero,
     adds |-> 0, frames |-> 0]

InitClock ==
    /\ \E gs \in DefaultGameStates :
          /\ inventory = gs.inventory
          /\ ore_minigames = gs.ore_minigames
          /\ elements = gs.elements
    /\ prev_time = 0
    /\ game_timer = F(0, 1)
    /\ producer_index_marked_for_deletion = NoIndex
    /\ selection = "Summary"
    /\ debug_amt_slider = 100
    /\ before = inventory
    /\ inv0 = inventory
    /\ last = FrameRecord(0)
    /\ stats = [granted |-> [o \in Ores |-> 0], solved |-> [o \in Ores |-> 0]]
    /\ self = None
    /\ tick_rate = TickRate
    /\ om = <<>>
    /\ nticks = 0
    /\ storage = NoStorage
    /\ hist = ClockStart

\* a frame of SpecClock with click ev, dt microseconds after the last one:
\* now is read from the wall clock
ClockStep(ev, dt) ==
    /\ Update(hist.clock + dt - prev_time, <<>>, ev)
    /\ hist' = [clock |-> hist.clock + dt,
                since |-> hist.clock,
                millis |-> hist.millis + num_milliseconds(dt),
                ticks |-> hist.ticks + last'.ticks,
                added |-> IF ev.op = "add_seconds"
                          THEN RAdd(hist.added, F(debug_amt_slider, 1))
                          ELSE hist.added,
                adds |-> hist.adds + (IF ev.op = "add_seconds" THEN 1 ELSE 0),
                frames |-> hist.frames + (IF dt = 0 THEN 0 ELSE 1)]

\* a frame without a click
ClockIdle ==
    \E dt \in ClockElapsed :
        /\ dt = 0 \/ hist.frames + hist.adds < MaxFrames
        /\ ClockStep(NoClick, dt)

\* the player moves the slider
ClockSlider ==
    \E value \in ClockSliders :
        ClockStep(Event("slider", "Money", value, 0), 0)

\* a click on "Debug: Add <slider> seconds"
ClockAddSeconds ==
    /\ hist.frames + hist.adds < MaxFrames
    /\ ClockStep(Event("add_seconds", "Money", 0, 0), 0)

NextClock == ClockIdle \/ ClockSlider \/ ClockAddSeconds

SpecClock == InitClock /\ [][NextClock]_vars

\* the ticks that a balance of b seconds pays for in one frame
TicksFor(b) ==
    LET whole == RFloor(RDiv(b, TickRate))
        paid == IF whole < 0 THEN 0 ELSE whole
    IN  IF paid < tick_limit THEN paid ELSE tick_limit

\* C12: a frame runs min(tick_limit, max(0, floor(balance / tick duration)))
\* ticks, balance being the timer after the frame's elapsed time was added,
\* and leaves balance - ticks * tick duration on the timer; with 1000
\* ticks' worth (50 seconds) it runs 100 ticks and leaves 900 ticks' worth
\* (45 seconds); with a negative balance it runs none
C12_TicksPerFrame ==
    /\ last.ticks = TicksFor(last.balance)
    /\ last.left = RSub(last.balance, RMul(F(last.ticks, 1), TickRate))
    /\ last.balance = F(50, 1) => last.ticks = 100 /\ last.left = F(45, 1)
    /\ RLt(last.balance, Zero) => last.ticks = 0 /\ last.left = last.balance

\* a frame that began with 1000 ticks' worth on the timer
C12_Witness ==
    /\ last.balance = F(50, 1)
    /\ last.now - last.since = 50000 * Ms
    /\ last.ticks = tick_limit
    /\ last.left = RMul(F(900, 1), TickRate)

\* C13 as stated: the time above the limit of a frame is dropped, so that,
\* the debug button aside, no frame leaves a whole tick on the timer and
\* every frame runs only the ticks its own elapsed time, with the fraction
\* of a tick left before it, pays for
C13_ExcessDropped ==
    hist.adds = 0 =>
        /\ RLt(last.left, TickRate)
        /\ RLe(RMul(F(last.ticks, 1), TickRate),
               RAdd(F(last.now - last.since, 1000 * Ms), TickRate))

\* C13, amended: the time above the limit of a frame stays on the timer and
\* is run by the frames that follow, at most tick_limit ticks in each: the
\* timer and the ticks run so far add up to all the milliseconds the frames
\* counted and the seconds that were added, and a frame that stops short of
\* the limit leaves less than a tick
C13_ExcessCarried ==
    /\ RAdd(game_timer, RMul(F(hist.ticks, 1), TickRate))
           = RAdd(F(hist.millis, 1000), hist.added)
    /\ last.ticks <= tick_limit
    /\ last.ticks < tick_limit => RLt(last.left, TickRate)

\* a stall of 150 ticks, then a frame in which no time passed: it ran the
\* 50 ticks the frame of the stall had left
C13_Witness ==
    /\ hist.adds = 0
    /\ hist.clock = 7500 * Ms
    /\ last.now = last.since
    /\ last.ticks = 50
    /\ hist.ticks = 150
    /\ game_timer = Zero

\* C14: after every frame prev_time is the wall clock of that frame,
\* whatever the number of ticks, and the frame added to the timer exactly
\* the time between the frame before it and itself, so that no time of the
\* wall clock is added twice and none is left out
C14_PrevTimeEveryFrame ==
    /\ prev_time = hist.clock
    /\ prev_time = last.now
    /\ last.since = hist.since
    /\ last.balance = RAdd(last.timer, F(hist.clock - hist.since, 1000 * Ms))

----------------------------------------------------------------------------
(* SpecElems: frames in which the player adds blank elements and drills on *)
(* the Summary tab and deletes producers in the producers panel, with a    *)
(* history of the keys removed from the elements map                       *)

\* clicks on "Add blank window" and on drill buttons
MaxAdds == 3

\* the ore whose drills the player adds
ElemsOres == {"IronOre"}

\* the history of SpecElems: removed, the keys elements.remove was called
\* with so far; adds, the number of elements inserted
ElemsStart == [removed |-> {}, adds |-> 0]

InitElems ==
    /\ \E gs \in DefaultGameStates :
          /\ inventory = gs.inventory
          /\ ore_minigames = gs.ore_minigames
          /\ elements = gs.elements
    /\ prev_time = 0
    /\ game_timer = F(0, 1)
    /\ producer_index_marked_for_deletion = NoIndex
    /\ selection = "Summary"
    /\ debug_amt_slider = 100
    /\ before = inventory
    /\ inv0 = inventory
    /\ last = FrameRecord(0)
    /\ stats = [granted |-> [o \in Ores |-> 0], solved |-> [o \in Ores |-> 0]]
    /\ self = None
    /\ tick_rate = TickRate
    /\ om = <<>>
    /\ nticks = 0
    /\ storage = NoStorage
    /\ hist = ElemsStart

\* a frame of SpecElems with click ev, at the time of the last one
ElemsFrame(ev) ==
    /\ Update(0, <<>>, ev)
    /\ hist' = [removed |-> IF last'.removed = NoIndex THEN hist.removed
                            ELSE hist.removed \cup {last'.removed[1]},
                adds |-> hist.adds + (IF last'.assigned = NoIndex THEN 0 ELSE 1)]

\* a click on "Add blank window"
ElemsAddBlank ==
    /\ hist.adds < MaxAdds
    /\ ElemsFrame(Event("add_blank", "Money", 0, 0))

\* a click on "Debug: Add <ore> gravity drill" or "Debug: Add <ore> coal drill"
ElemsAddDrill ==
    /\ hist.adds < MaxAdds
    /\ \E op \in {"add_gravity", "add_coal"}, ore \in ElemsOres :
          ElemsFrame(Event(op, ore, 0, 0))

\* a click on the X of a producer in the producers panel
ElemsDelete ==
    \E id \in DOMAIN elements : ElemsFrame(Event("delete", "Money", 0, id))

NextElems == ElemsAddBlank \/ ElemsAddDrill \/ ElemsDelete

SpecElems == InitElems /\ [][NextElems]_vars

\* C15 as stated: a key that was removed from the elements map is never the
\* key a later element is inserted under
C15_HandleNeverReused ==
    last.assigned # NoIndex => last.assigned[1] \notin hist.removed

\* C16: no two elements of the elements map have the same window_id
C16_WindowIdsDiffer ==
    \A i, j \in DOMAIN elements :
        i # j => elements[i].window_id # elements[j].window_id

\* three elements were added and the first, a drill, was deleted: the two
\* that remain have the keys 1 and 2 and window ids that differ
C16_Witness ==
    /\ hist.removed = {0}
    /\ hist.adds = 3
    /\ DOMAIN elements = {1, 2}
    /\ elements[1].window_id # elements[2].window_id
    /\ elements[2].window_id = "Blank 2"

----------------------------------------------------------------------------
(* SpecTable: a collection of elements is ticked and the inventory grid,   *)
(* with the theoretical production of every good, is displayed             *)

\* hashmap.entry(good).or_insert((0, 0)) with .0 += amount (side 1) or
\* .1 += amount (side 2)
AddRate(table, good, side, amount) ==
    [g \in DOMAIN table \cup {good} |->
        LET row == IF g \in DOMAIN table THEN table[g] ELSE <<Zero, Zero>>
        IN  IF g = good
            THEN [row EXCEPT ![side] = RAdd(@, amount)]
            ELSE row]

\* for (good, amount) in rates.iter() { AddRate }, the goods taken in the
\* order of Good::iter()
RECURSIVE AddRates(_, _, _, _)
AddRates(table, rates, side, i) ==
    IF i > Len(GoodSeq) THEN table
    ELSE AddRates(IF GoodSeq[i] \in DOMAIN rates
                  THEN AddRate(table, GoodSeq[i], side, rates[GoodSeq[i]])
                  ELSE table,
                  rates, side, i + 1)

\* mutant: only the producers that can afford a tick are counted
RECURSIVE production_table_throttled(_, _)
production_table_throttled(elems, order) ==
    IF order = <<>> THEN [g \in {} |-> <<Zero, Zero>>]
    ELSE LET hashmap == production_table_throttled(elems, Tail(order))
             variant == elems[Head(order)].variant
         IN  IF variant[1] = "Producer"
                 /\ has_enough_inputs(variant[2], inventory, TickRate)
             THEN AddRates(AddRates(hashmap, properties(variant[2]).outputs, 1, 1),
                           properties(variant[2]).inputs, 2, 1)
             ELSE hashmap

\* GameState::production_table_theoretical, the elements being visited in
\* the order `order` (from its last member to its first): a map from the
\* goods that some producer outputs or consumes to (outputs, inputs)
RECURSIVE production_table_theoretical(_, _)
production_table_theoretical(elems, order) ==
    IF order = <<>> THEN [g \in {} |-> <<Zero, Zero>>]
    ELSE LET hashmap == production_table_theoretical(elems, Tail(order))
             variant == elems[Head(order)].variant
         IN  IF variant[1] = "Producer"
             THEN AddRates(AddRates(hashmap, properties(variant[2]).outputs, 1, 1),
                           properties(variant[2]).inputs, 2, 1)
             ELSE hashmap

\* the row of a good in the inventory grid: the amount rounded down, then
\* (output, input) = production_table.get(good).unwrap_or(&(0, 0)) shown as
\* output, -input and output - input
GridRow(good, amount, production_table) ==
    LET row == IF good \in DOMAIN production_table
               THEN production_table[good] ELSE <<Zero, Zero>>
    IN  [good |-> good, amount |-> RFloor(amount), output |-> row[1],
         input |-> RSub(Zero, row[2]), net |-> RSub(row[1], row[2])]

\* display_inventory_grid: one row per entry of the inventory, the entries
\* sorted by good (the derived Ord of Good: the order of declaration)
display_inventory_grid(elems, inv, order) ==
    LET production_table == production_table_theoretical(elems, order)
        sorted_inventory == SelectSeq(GoodSeq, LAMBDA g : g \in DOMAIN inv)
    IN  [i \in 1 .. Len(sorted_inventory) |->
            GridRow(sorted_inventory[i], inv[sorted_inventory[i]],
                    production_table)]

\* inventories of a game: an entry for every good; no coal, a fraction of
\* what a coal drill needs for a tick, enough coal
TableInventories ==
    {[g \in Goods |-> IF g = "Coal" THEN c ELSE Zero] :
        c \in {Zero, F(1, 160), F(1, 4)}}

\* the history of SpecTable: the grid displayed last
NoGrid == [shown |-> FALSE, rows |-> <<>>]

InitTable ==
    /\ elements \in TickCollections
    /\ tick_rate = TickRate
    /\ inventory \in TableInventories
    /\ inv0 = inventory
    /\ before = inventory
    /\ nticks = 0
    /\ self = None
    /\ last = <<>>
    /\ IdleApp
    /\ IdleOre
    /\ storage = NoStorage
    /\ hist = NoGrid

\* game_state.tick(&tick_rate), as in SpecTick
TableTick ==
    /\ GameTick
    /\ UNCHANGED hist

\* the inventory grid is displayed, the HashMap of elements being iterated
\* in some order
TableDisplay ==
    /\ \E order \in Perms(DOMAIN elements) :
          hist' = [shown |-> TRUE,
                   rows |-> display_inventory_grid(elements, inventory, order)]
    /\ UNCHANGED <<self, tick_rate, om, inventory, before, inv0, nticks,
                   elements, last, ore_minigames, stats, appVars, storage>>

NextTable == TableTick \/ TableDisplay

SpecTable == InitTable /\ [][NextTable]_vars

\* the sum, over the producers among the elements with keys in S, of the
\* rate of good g in their outputs (side 1) or inputs (side 2)
RECURSIVE TotalRate(_, _, _, _)
TotalRate(elems, S, g, side) ==
    IF S = {} THEN Zero
    ELSE LET k == CHOOSE x \in S : TRUE
             v == elems[k].variant
             rates == IF v[1] # "Producer" THEN EmptyMap
                      ELSE IF side = 1 THEN properties(v[2]).outputs
                      ELSE properties(v[2]).inputs
         IN  RAdd(Get(rates, g), TotalRate(elems, S \ {k}, g, side))

\* C17: the table displayed gives, for every good, the sum of the unscaled
\* output rates and the sum of the unscaled input rates of all producer
\* elements (the grid shows the second with a minus sign), whatever the
\* inventory and whether or not the producers can afford their inputs;
\* blank elements add nothing and a good that no producer outputs or
\* consumes is shown with (0, 0)
C17_TheoreticalRates ==
    hist.shown =>
        /\ Len(hist.rows) = Len(GoodSeq)
        /\ \A i \in 1 .. Len(hist.rows) :
              LET g == GoodSeq[i]
              IN  /\ hist.rows[i].good = g
                  /\ hist.rows[i].output
                         = TotalRate(elements, DOMAIN elements, g, 1)
                  /\ hist.rows[i].input
                         = RSub(Zero, TotalRate(elements, DOMAIN elements, g, 2))
                  /\ (\A k \in DOMAIN elements :
                         \/ elements[k].variant = Blank
                         \/ g \notin
                              DOMAIN properties(elements[k].variant[2]).outputs
                                \cup DOMAIN properties(elements[k].variant[2]).inputs)
                     => hist.rows[i].output = Zero /\ hist.rows[i].input = Zero

\* two coal drills, of coal and of iron ore, and no coal to run them: coal
\* is shown with 1/s out and -1/2 /s in, iron ore with 1/s out, money with
\* nothing
C17_Witness ==
    /\ hist.shown
    /\ DOMAIN elements = {0, 1}
    /\ elements[0].variant = ProducerElem(CoalDrill("Coal"))
    /\ elements[1].variant = ProducerElem(CoalDrill("IronOre"))
    /\ inventory["Coal"] = Zero
    /\ hist.rows[5].good = "Coal"
    /\ hist.rows[5].output = One
    /\ hist.rows[5].input = F(-1, 2)
    /\ hist.rows[5].net = F(1, 2)
    /\ hist.rows[2].good = "IronOre"
    /\ hist.rows[2].output = One
    /\ hist.rows[1].good = "Money"
    /\ hist.rows[1].output = Zero
    /\ hist.rows[1].input = Zero

----------------------------------------------------------------------------
(* SpecBank: frames in which the inventory changes in every way the game   *)
(* has: ticks of a gravity drill, the debug credits of the Summary tab,    *)
(* the reward of a minigame, and the Reset button                          *)

\* clicks on "Debug: Add <amount> dollars" and "Debug: Add <amount> <ore>"
MaxCredits == 1
\* sessions the player solves
MaxRewards == 1

\* the ore the player mines, drills and credits
BankOres == {"IronOre"}

\* the history of SpecBank: fresh, no frame has run since construction;
\* credits, the number of clicks on the debug credits
BankStart == [fresh |-> TRUE, credits |-> 0]

InitBank ==
    /\ \E gs \in DefaultGameStates :
          /\ inventory = gs.inventory
          /\ ore_minigames = gs.ore_minigames
          /\ elements = gs.elements
    /\ prev_time = 0
    /\ game_timer = F(0, 1)
    /\ producer_index_marked_for_deletion = NoIndex
    /\ selection = "Summary"
    /\ debug_amt_slider = 100
    /\ before = inventory
    /\ inv0 = inventory
    /\ last = FrameRecord(0)
    /\ stats = [granted |-> [o \in Ores |-> 0], solved |-> [o \in Ores |-> 0]]
    /\ self = None
    /\ tick_rate = TickRate
    /\ om = <<>>
    /\ nticks = 0
    /\ storage = NoStorage
    /\ hist = BankStart

\* a frame of SpecBank with click ev, elapsed microseconds after the last
BankFrame(ev, elapsed) ==
    \E order \in Perms(DOMAIN elements) :
        /\ prev_time + elapsed <= MaxClock * 50 * Ms
        /\ Update(elapsed, order, ev)
        /\ hist' = [fresh |-> FALSE,
                    credits |-> hist.credits +
                        (IF ev.op \in {"add_dollars", "add_ore"} THEN 1 ELSE 0)]

\* a frame without a click, in which time may pass
BankIdle == \E elapsed \in MineElapsed : BankFrame(NoClick, elapsed)

\* a click on the Summary or the Metallurgy tab
BankSelect ==
    \E section \in Sections : BankFrame(Event("select", section, 0, 0), 0)

\* a click on the button of an ore's minigame that is next in line
BankPress ==
    \E ore \in BankOres :
        /\ Total(stats.solved) < MaxRewards
        /\ BankFrame(Event("press", ore, ore_minigames[ore].next, 0), 0)

\* a click on "Debug: Add <ore> gravity drill"
BankAddDrill ==
    \E ore \in BankOres :
        /\ Cardinality(DOMAIN elements) < MaxDrills
        /\ BankFrame(Event("add_gravity", ore, 0, 0), 0)

\* a click on "Debug: Add <amount> dollars" or "Debug: Add <amount> <ore>"
BankCredit ==
    /\ hist.credits < MaxCredits
    /\ \/ BankFrame(Event("add_dollars", "Money", 0, 0), 0)
       \/ \E ore \in BankOres : BankFrame(Event("add_ore", ore, 0, 0), 0)

\* a click on Reset
BankReset == BankFrame(Event("reset", "Money", 0, 0), 0)

NextBank ==
    BankIdle \/ BankSelect \/ BankPress \/ BankAddDrill \/ BankCredit
        \/ BankReset

SpecBank == InitBank /\ [][NextBank]_vars

\* C18: the inventory has an entry for every good, after the ticks of a
\* frame and at the end of the frame, and all entries are zero right after
\* default construction and right after Reset
C18_EveryGoodHasEntry ==
    /\ DOMAIN inventory = Goods
    /\ DOMAIN before = Goods
    /\ hist.fresh => \A g \in Goods : inventory[g] = Zero
    /\ last.op = "reset" => \A g \in Goods : inventory[g] = Zero

\* a debug credit was given, a drill ticked and a minigame was rewarded,
\* and then Reset was clicked: every good is there with zero
C18_Witness ==
    /\ last.op = "reset"
    /\ hist.credits = 1
    /\ stats.granted["IronOre"] = 1
    /\ prev_time = 50 * Ms
    /\ DOMAIN inventory = Goods
    /\ \A g \in Goods : inventory[g] = Zero

----------------------------------------------------------------------------
(* SpecLoad: the game runs, is saved, is closed and started again from the *)
(* storage, with a history of the wall clock and of the time the game was  *)
(* running                                                                 *)

\* times the game is started again
MaxLoads == 1

\* time between two frames: none, 20.5 ms (less than a tick), 150 ticks
LoadElapsed == {0, 20500, 7500 * Ms}
\* time between the last frame of a run and the start of the next
LoadGaps == {0, 60000 * Ms}

\* IdleGame::default at time now; made is the game state GameState::default
\* makes for it
IdleGameDefault(now, made) ==
    [prev_time |-> now,
     game_timer |-> F(0, 1),
     game_state |-> made,
     producer_index_marked_for_deletion |-> NoIndex,
     selection |-> "Summary",
     debug_amt_slider |-> 100]

\* eframe::get_value(storage, APP_KEY).unwrap_or_default(): the value that
\* was stored, or IdleGame::default
get_value_or_default(st, now, made) ==
    IF st = NoStorage THEN IdleGameDefault(now, made) ELSE st[1]

\* mutant: the game is taken from the storage as it was saved
IdleGameNew_offline(st, now, made) == get_value_or_default(st, now, made)

\* IdleGame::new with a storage: the stored game, with prev_time = now
IdleGameNew(st, now, made) ==
    [get_value_or_default(st, now, made) EXCEPT !.prev_time = now]

\* IdleGame::save: eframe::set_value(storage, APP_KEY, self) stores every
\* field of the game
IdleGameSave ==
    Some([prev_time |-> prev_time,
          game_timer |-> game_timer,
          game_state |-> [inventory |-> inventory,
                          ore_minigames |-> ore_minigames,
                          elements |-> elements],
          producer_index_marked_for_deletion |->
              producer_index_marked_for_deletion,
          selection |-> selection,
          debug_amt_slider |-> debug_amt_slider])

\* the history of SpecLoad: clock, the wall clock in microseconds; ran and
\* ticks, the whole milliseconds the frames of this game counted while it
\* was running, over all its runs, and the ticks it was given; saved, the
\* two as they were
\* when the game was saved; loads and frames, the numbers of starts and of
\* frames in which time passed; first, the frames since the last start
LoadStart ==
    [clock |-> 0, ran |-> 0, ticks |-> 0,
     saved |-> [ran |-> 0, ticks |-> 0, stored |-> FALSE],
     loads |-> 0, frames |-> 0, first |-> 0]

InitLoad ==
    /\ \E gs \in DefaultGameStates :
          /\ inventory = gs.inventory
          /\ ore_minigames = gs.ore_minigames
          /\ elements = gs.elements
    /\ prev_time = 0
    /\ game_timer = F(0, 1)
    /\ producer_index_marked_for_deletion = NoIndex
    /\ selection = "Summary"
    /\ debug_amt_slider = 100
    /\ before = inventory
    /\ inv0 = inventory
    /\ last = FrameRecord(0)
    /\ stats = [granted |-> [o \in Ores |-> 0], solved |-> [o \in Ores |-> 0]]
    /\ self = None
    /\ tick_rate = TickRate
    /\ om = <<>>
    /\ nticks = 0
    /\ storage = NoStorage
    /\ hist = LoadStart

\* a frame without a click, dt microseconds after the last frame or the
\* start: now is read from the wall clock
LoadFrame ==
    \E dt \in LoadElapsed :
        /\ dt = 0 \/ hist.frames < MaxFrames
        /\ Update(hist.clock + dt - prev_time, <<>>, NoClick)
        /\ hist' = [hist EXCEPT !.clock = @ + dt,
                                !.ran = @ + num_milliseconds(dt),
                                !.ticks = @ + last'.ticks,
                                !.frames = @ + (IF dt = 0 THEN 0 ELSE 1),
                                !.first = IF @ < 2 THEN @ + 1 ELSE @]
        /\ storage' = storage

\* the game is saved
LoadSave ==
    /\ storage' = IdleGameSave
    /\ hist' = [hist EXCEPT !.saved = [ran |-> hist.ran, ticks |-> hist.ticks,
                                       stored |-> TRUE]]
    /\ UNCHANGED <<self, tick_rate, om, inventory, before, inv0, nticks,
                   elements, last, ore_minigames, stats, appVars>>

\* the game is closed and, gap microseconds later, started from the storage
LoadNew ==
    \E gap \in LoadGaps :
    \E made \in DefaultGameStates :
    \E game \in {IdleGameNew(storage, hist.clock + gap, made)} :
        /\ hist.loads < MaxLoads
        /\ prev_time' = game.prev_time
        /\ game_timer' = game.game_timer
        /\ inventory' = game.game_state.inventory
        /\ ore_minigames' = game.game_state.ore_minigames
        /\ elements' = game.game_state.elements
        /\ producer_index_marked_for_deletion' =
               game.producer_index_marked_for_deletion
        /\ selection' = game.selection
        /\ debug_amt_slider' = game.debug_amt_slider
        /\ before' = game.game_state.inventory
        /\ last' = FrameRecord(hist.clock + gap)
        /\ hist' = [hist EXCEPT !.clock = @ + gap,
                                !.ran = IF hist.saved.stored
                                        THEN hist.saved.ran ELSE 0,
                                !.ticks = IF hist.saved.stored
                                          THEN hist.saved.ticks ELSE 0,
                                !.loads = @ + 1,
                                !.first = 0]
        /\ UNCHANGED <<self, tick_rate, om, inv0, nticks, stats, storage>>

NextLoad == LoadFrame \/ LoadSave \/ LoadNew

SpecLoad == InitLoad /\ [][NextLoad]_vars

\* C19: the time between saving and loading produces no ticks: after the
\* start prev_time is the time of the start and the timer is the saved one;
\* the first frame adds to the timer the time since the start and no more;
\* and at all times the timer and the ticks given add up to the time the
\* game was running, the time it was closed left out
C19_NoTicksWhileClosed ==
    /\ hist.loads > 0 /\ hist.first = 0 =>
          /\ prev_time = hist.clock
          /\ storage # NoStorage => game_timer = storage[1].game_timer
    /\ hist.loads > 0 /\ hist.first = 1 =>
          /\ last.since = hist.clock - (last.now - last.since)
          /\ RSub(last.balance, last.timer)
                 = F(num_milliseconds(last.now - last.since), 1000)
          /\ last.now - last.since \in LoadElapsed
    /\ prev_time = hist.clock
    /\ RAdd(game_timer, RMul(F(hist.ticks, 1), TickRate)) = F(hist.ran, 1000)

\* a game saved with less than a tick on the timer, started a minute later:
\* its first frame, 20.5 ms after the start, runs no tick
C19_Witness ==
    /\ hist.loads = 1
    /\ hist.first = 1
    /\ hist.saved.stored
    /\ hist.clock = 60041000
    /\ last.since = 60020500
    /\ last.timer = F(20, 1000)
    /\ last.balance = F(40, 1000)
    /\ last.ticks = 0
    /\ hist.ticks = 0

----------------------------------------------------------------------------
(* The order of the elements in GameState::tick (SpecTick) *)

\* the keys of the producers among the elements, and their rates
ProducerKeys == {k \in DOMAIN elements : elements[k].variant[1] = "Producer"}
InputsOf(k) == properties(elements[k].variant[2]).inputs
OutputsOf(k) == properties(elements[k].variant[2]).outputs

\* the producers that consume good g, and what the ones in S need of it for
\* a tick
Consumers(g) == {k \in ProducerKeys : g \in DOMAIN InputsOf(k)}
RECURSIVE NeedOf(_, _)
NeedOf(S, g) ==
    IF S = {} THEN Zero
    ELSE LET k == CHOOSE x \in S : TRUE
         IN  RAdd(RMul(InputsOf(k)[g], tick_rate), NeedOf(S \ {k}, g))

\* two producers or more compete for a good of which inv holds less than
\* they need together
Compete(inv) ==
    \E g \in Goods :
        /\ Cardinality(Consumers(g)) >= 2
        /\ RLt(Get(inv, g), NeedOf(Consumers(g), g))

\* a producer outputs a good that another producer consumes
Feeds ==
    \E i, j \in ProducerKeys :
        i # j /\ DOMAIN OutputsOf(i) \cap DOMAIN InputsOf(j) # {}

\* the inventories a tick from inv can end in, over all orders
Outcomes(inv) ==
    {GameStateTick(elements, inv, tick_rate, order) :
        order \in Perms(DOMAIN elements)}

\* C20 as stated: unless two producers compete for the same scarce input,
\* the inventory after a tick is the same for every order of the elements
C20_OrderOnlyInCompetition ==
    (nticks > 0 /\ ~ Compete(before)) =>
        Outcomes(before) = {inventory}

\* C20, amended: the inventory after a tick is the same for every order
\* unless two producers compete for the same scarce input or a producer
\* outputs a good that another consumes; of two producers that compete for
\* a balance that covers either but not both, the one visited first runs
\* and the other does not
C20_OrderInCompetitionOrFeeding ==
    /\ (nticks > 0 /\ ~ Compete(before) /\ ~ Feeds) =>
          Outcomes(before) = {inventory}
    /\ (/\ nticks > 0
        /\ Len(last) = 2
        /\ ProducerKeys = DOMAIN elements
        /\ Compete(before)
        /\ ~ Feeds
        /\ \A k \in ProducerKeys :
              has_enough_inputs(elements[k].variant[2], before, tick_rate)) =>
          inventory = tick_inventory(elements[last[1]].variant[2], before,
                                     tick_rate)

\* the coal drills of iron ore and of gold ore with coal for one of them:
\* the drill of gold ore was visited first and ran, the other did not
C20_Witness ==
    /\ nticks = 1
    /\ tick_rate = TickRate
    /\ DOMAIN elements = {0, 1}
    /\ elements[0].variant = ProducerElem(CoalDrill("IronOre"))
    /\ elements[1].variant = ProducerElem(CoalDrill("GoldOre"))
    /\ last = <<1, 0>>
    /\ before = [g \in Goods |-> IF g = "Coal" THEN F(1, 80) ELSE Zero]
    /\ inventory["GoldOre"] = F(1, 20)
    /\ inventory["IronOre"] = Zero
    /\ inventory["Coal"] = Zero
    /\ Compete(before)
    /\ Cardinality(Outcomes(before)) = 2

----------------------------------------------------------------------------
(* SpecDebug: frames in which the player moves the debug slider, clicks    *)
(* the debug credits and plays a minigame                                  *)

\* values the player moves the slider to, from its first value of 100: the
\* least one, a negative one, zero and a positive one
DebugSliders == {-1000, -1, 0, 5}

\* the player moves the slider
DebugSlider ==
    \E value \in DebugSliders :
        BankFrame(Event("slider", "Money", value, 0), 0)

NextDebug == DebugSlider \/ BankCredit \/ BankSelect \/ BankPress

SpecDebug == InitBank /\ [][NextDebug]_vars

\* C21 as stated: a debug credit or a minigame reward adds a non-negative
\* amount: no balance is lower after it than before it, and none becomes
\* negative
C21_CreditsNeverLower ==
    (last.op \in {"add_dollars", "add_ore"} \/ last.granted # {}) =>
        /\ \A g \in Goods : RLe(Get(before, g), Get(inventory, g))
        /\ NonNegative(before) => NonNegative(inventory)

----------------------------------------------------------------------------
(* The sessions of different ores (SpecRetry) *)

\* C22: a frame with a press on a button of one ore, whether the press is
\* accepted, fails the session or solves it, and whatever reset follows,
\* leaves the session of every other ore (order, next, failed, difficulty:
\* whatever order it is displayed in, the chain of the frame returns the
\* session it was given) and the balance of every other good as they were
C22_SessionsIndependent ==
    [][\A ore \in Ores :
          (last'.op = "press" /\ last'.target = ore) =>
              /\ \A other \in Ores \ {ore} :
                    /\ other \in last'.kept
                    /\ ore_minigames'[other] = ore_minigames[other]
              /\ \A g \in Goods \ {ore} : inventory'[g] = inventory[g]]_vars

\* the session of coal stands at 2 and the one of iron ore has just been
\* solved and reset: iron ore was credited, coal was not
C22_Witness ==
    /\ last.op = "press"
    /\ last.target = "IronOre"
    /\ last.solved = {"IronOre"}
    /\ hist.run["Coal"] = 1
    /\ ore_minigames["Coal"].next = 2
    /\ ore_minigames["IronOre"].next = 1
    /\ inventory["IronOre"] = One
    /\ inventory["Coal"] = Zero

----------------------------------------------------------------------------
(* SpecOrder: frames in which time passes and the player clicks: drills of *)
(* iron ore are added and deleted, coal is credited, the minigame of iron  *)
(* ore is played and the game is reset                                     *)

\* time between two frames: none, a tick, two ticks
OrderElapsed == {0, 50 * Ms, 100 * Ms}

\* a frame of SpecOrder without a click
OrderIdle == \E elapsed \in OrderElapsed : BankFrame(NoClick, elapsed)

\* a click on the Metallurgy tab
OrderSelect == BankFrame(Event("select", "Metallurgy", 0, 0), 0)

\* a click on "Debug: Add <ore> coal drill"
OrderAddDrill ==
    \E elapsed \in OrderElapsed, ore \in BankOres :
        /\ Cardinality(DOMAIN elements) < MaxDrills
        /\ BankFrame(Event("add_coal", ore, 0, 0), elapsed)

\* a click on the X of a producer
OrderDelete ==
    \E elapsed \in OrderElapsed, id \in DOMAIN elements :
        BankFrame(Event("delete", "Money", 0, id), elapsed)

\* a click on "Debug: Add <amount> Coal"
OrderCredit ==
    \E elapsed \in OrderElapsed :
        /\ hist.credits < MaxCredits
        /\ BankFrame(Event("add_ore", "Coal", 0, 0), elapsed)

\* a click on the button of an ore's minigame that is next in line
OrderPress ==
    \E elapsed \in OrderElapsed, ore \in BankOres :
        /\ Total(stats.solved) < MaxRewards
        /\ BankFrame(Event("press", ore, ore_minigames[ore].next, 0), elapsed)

\* a click on Reset
OrderReset ==
    \E elapsed \in OrderElapsed :
        BankFrame(Event("reset", "Money", 0, 0), elapsed)

NextOrder ==
    OrderIdle \/ OrderSelect \/ OrderAddDrill \/ OrderDelete \/ OrderCredit
        \/ OrderPress \/ OrderReset

SpecOrder == InitBank /\ [][NextOrder]_vars

\* the inventory after n ticks of the elements elems, visited in the order
\* `order` in each tick
RECURSIVE Ticked(_, _, _, _)
Ticked(elems, inv, n, order) ==
    IF n = 0 THEN inv
    ELSE Ticked(elems, GameStateTick(elems, inv, TickRate, order), n - 1, order)

\* the inventory inv after the closure of do_if_solved ran for the ores in
\* granted, from the i-th ore of the Metallurgy tab on
RECURSIVE Rewarded(_, _, _)
Rewarded(inv, granted, i) ==
    IF i > Len(group_iter("Ore")) THEN inv
    ELSE Rewarded(IF group_iter("Ore")[i] \in granted
                  THEN Credit(inv, group_iter("Ore")[i], One) ELSE inv,
                  granted, i + 1)

\* what the panels of a frame do to the inventory inv the ticks left: the
\* click of the frame, then the reward of every ore whose session the
\* Metallurgy tab found solved
ClickEffect(inv, frame, slider) ==
    Rewarded(CASE frame.op = "reset" -> [g \in Goods |-> Zero]
               [] frame.op = "add_dollars" -> Credit(inv, "Money", F(slider, 1))
               [] frame.op = "add_ore" -> Credit(inv, frame.target, F(slider, 1))
               [] OTHER -> inv,
             frame.granted, 1)

\* C23: the ticks of a frame all run before the click of the frame is
\* applied: they run on the elements and the inventory the frame began
\* with, so that an element added in the frame does not tick in it, an
\* element deleted in it still does, a credit is not there for them, and
\* the click is applied to the inventory the ticks left
C23_TicksBeforeClick ==
    [][\E order \in Perms(DOMAIN elements) :
          /\ last'.op # "reset" =>
                before' = Ticked(elements, inventory, last'.ticks, order)
          /\ inventory' =
                ClickEffect(Ticked(elements, inventory, last'.ticks, order),
                        last', debug_amt_slider)]_vars

\* a coal drill of iron ore with coal in the inventory is deleted in a
\* frame 100 ms after the last: it ran the two ticks of the frame and is
\* gone
C23_Witness ==
    /\ last.op = "delete"
    /\ last.ticks = 2
    /\ last.removed = Some(0)
    /\ DOMAIN elements = {}
    /\ hist.credits = 1
    /\ inventory["IronOre"] = F(1, 10)
    /\ inventory["Coal"] = RSub(F(100, 1), F(1, 40))

----------------------------------------------------------------------------
(* The fields of a session (SpecOre) *)

\* C24: in every state of a session its order is a permutation of
\* 1..difficulty, its difficulty is the one it had before the last call,
\* that is, the one it was created with, and 1 <= next <= difficulty + 1;
\* and the session GameState::default creates for an ore has the difficulty
\* of the ore in the catalog
C24_SessionWellFormed ==
    /\ Len(om.order) = om.difficulty
    /\ {om.order[i] : i \in 1 .. Len(om.order)} = 1 .. om.difficulty
    /\ om.difficulty = before.difficulty
    /\ 1 <= om.next /\ om.next <= om.difficulty + 1
    /\ \A ore \in Ores : \A session \in NewSessions(ore) :
          session.difficulty = Difficulty(ore)

\* a session of difficulty 3 displayed as 2, 1, 3 that has just been solved:
\* next is 4
C24_Witness ==
    /\ om.order = <<2, 1, 3>>
    /\ om.difficulty = 3
    /\ om.next = 4
    /\ ~ om.failed
    /\ last = [op |-> "ui", click |-> 3]

----------------------------------------------------------------------------
(* The sessions at the end of a frame (SpecRetry) *)

\* C25: at the end of every frame the session of every ore is in progress:
\* it is not failed and next <= difficulty; the frame in which a session
\* fails or is solved resets it
C25_InProgressAtFrameEnd ==
    /\ \A ore \in Ores :
          /\ ~ is_failed(ore_minigames[ore])
          /\ ~ is_solved(ore_minigames[ore])
          /\ ore_minigames[ore].next <= ore_minigames[ore].difficulty
    /\ \A ore \in last.failed \cup last.solved : ore_minigames[ore].next = 1

\* the session of coal failed after an accepted press and the one of iron
\* ore was solved in the last frame: both are in progress again
C25_Witness ==
    /\ last.solved = {"IronOre"}
    /\ hist.failed["Coal"]
    /\ hist.lost["Coal"] = 1
    /\ ore_minigames["Coal"].next = 1
    /\ ~ ore_minigames["Coal"].failed
    /\ ore_minigames["IronOre"].next = 1
    /\ ~ ore_minigames["IronOre"].failed

----------------------------------------------------------------------------
(* The boundary of has_enough_inputs (SpecProducer) *)

\* the producer has inputs and the balance of each is exactly what one tick
\* needs of it
ExactlyEnough(p, inv, dt) ==
    /\ DOMAIN properties(p).inputs # {}
    /\ \A x \in DOMAIN properties(p).inputs :
          Get(inv, x) = RMul(properties(p).inputs[x], dt)

\* C26 as stated: with exactly rate_in * dt of its input a producer credits
\* its full output and leaves the balance of the input at exactly 0; with
\* less it produces nothing
C26_ExactBalanceLeavesZero ==
    nticks > 0 =>
        /\ ExactlyEnough(self, before, tick_rate) =>
              /\ \A g \in DOMAIN properties(self).outputs
                            \ DOMAIN properties(self).inputs :
                    Get(inventory, g) =
                        RAdd(Get(before, g),
                             RMul(properties(self).outputs[g], tick_rate))
              /\ \A x \in DOMAIN properties(self).inputs :
                    Get(inventory, x) = Zero
        /\ ~ Affordable(self, before, tick_rate) => inventory = before

\* C26, amended: with exactly rate_in * dt of its input a producer credits
\* its full output; the balance of the input is left at exactly 0 when the
\* producer does not output that good, and at rate_out * dt when it does
\* (the coal drill of coal); with less it produces nothing
C26_ExactBalanceIsEnough ==
    nticks > 0 =>
        /\ ExactlyEnough(self, before, tick_rate) =>
              /\ \A g \in DOMAIN properties(self).outputs
                            \ DOMAIN properties(self).inputs :
                    Get(inventory, g) =
                        RAdd(Get(before, g),
                             RMul(properties(self).outputs[g], tick_rate))
              /\ \A x \in DOMAIN properties(self).inputs :
                    Get(inventory, x) =
                        RMul(RateOf(properties(self).outputs, x), tick_rate)
        /\ ~ Affordable(self, before, tick_rate) => inventory = before

\* a coal drill of iron ore with exactly 1/80 coal ran a tick of 1/20 s: the
\* coal is 0 and the iron ore is 1/20 more
C26_Witness ==
    /\ nticks = 1
    /\ self = CoalDrill("IronOre")
    /\ tick_rate = F(1, 20)
    /\ Get(before, "Coal") = F(1, 80)
    /\ "IronOre" \in DOMAIN before
    /\ Get(inventory, "Coal") = Zero
    /\ Get(inventory, "IronOre") = RAdd(Get(before, "IronOre"), F(1, 20))

----------------------------------------------------------------------------
(* Additions and deletions of elements (SpecElems) *)

\* C27 as stated: a frame that adds an element leaves one element more than
\* there were, and every element that was there is still there, unchanged,
\* under its key
C27_AddKeepsElements ==
    [][last'.assigned # NoIndex =>
          /\ Cardinality(DOMAIN elements') = Cardinality(DOMAIN elements) + 1
          /\ \A k \in DOMAIN elements :
                k \in DOMAIN elements' /\ elements'[k] = elements[k]]_vars

----------------------------------------------------------------------------
(* SpecDelete: elements are added and producers are deleted, in frames in  *)
(* which time may pass and the gravity drills tick                         *)

\* a frame of SpecDelete with click ev, elapsed microseconds after the last,
\* with the history of SpecElems
DeleteFrame(ev, elapsed) ==
    \E order \in Perms(DOMAIN elements) :
        /\ prev_time + elapsed <= MaxClock * 50 * Ms
        /\ Update(elapsed, order, ev)
        /\ hist' = [removed |-> IF last'.removed = NoIndex THEN hist.removed
                                ELSE hist.removed \cup {last'.removed[1]},
                    adds |-> hist.adds +
                                (IF last'.assigned = NoIndex THEN 0 ELSE 1)]

\* a frame without a click
DeleteIdle == \E elapsed \in MineElapsed : DeleteFrame(NoClick, elapsed)

\* a click on "Add blank window" or on "Debug: Add <ore> gravity drill"
DeleteAdd ==
    /\ hist.adds < MaxAdds
    /\ \/ DeleteFrame(Event("add_blank", "Money", 0, 0), 0)
       \/ \E ore \in ElemsOres : DeleteFrame(Event("add_gravity", ore, 0, 0), 0)

\* a click on the X of a producer in the producers panel
DeleteClick ==
    \E elapsed \in MineElapsed, id \in DOMAIN elements :
        DeleteFrame(Event("delete", "Money", 0, id), elapsed)

NextDelete == DeleteIdle \/ DeleteAdd \/ DeleteClick

SpecDelete == InitElems /\ [][NextDelete]_vars

\* C28: the frame in which the X of a producer is clicked removes the entry
\* of that producer and no other and leaves the other elements as they
\* were; no producer is marked for deletion at the end of a frame; and the
\* ticks of every frame are those of the elements the frame began with, so
\* that from the next frame on the deleted producer credits and debits
\* nothing
C28_DeleteInSameFrame ==
    [][/\ last'.op = "delete" =>
             /\ last'.id \in DOMAIN elements
             /\ DOMAIN elements' = DOMAIN elements \ {last'.id}
             /\ \A k \in DOMAIN elements' : elements'[k] = elements[k]
       /\ producer_index_marked_for_deletion' = NoIndex
       /\ \E order \in Perms(DOMAIN elements) :
             inventory' = Ticked(elements, inventory, last'.ticks, order)
       /\ (\A k \in DOMAIN elements : elements[k].variant = Blank) =>
             inventory' = inventory]_vars

\* two gravity drills and a blank element were added and the first drill
\* was deleted; in the frame after, 50 ms later, the tick credited the
\* iron ore of one drill only
C28_Witness ==
    /\ hist.removed = {0}
    /\ hist.adds = 3
    /\ DOMAIN elements = {1, 2}
    /\ last.op = "none"
    /\ last.ticks = 1
    /\ inventory["IronOre"] = F(1, 20)
    /\ producer_index_marked_for_deletion = NoIndex

----------------------------------------------------------------------------
(* SpecTimer: the timer over frames that follow one another closely, after *)
(* a stall or a click on "Debug: Add seconds", from a timer that a save    *)
(* may have left with a balance                                            *)

\* frames in which time passed
MaxTimerFrames == 4

\* stalls and clicks on "Debug: Add seconds"
MaxLong == 1

\* the timer at the first frame, in seconds: nothing, half a tick, a
\* millisecond less than a tick, a debt
TimerStarts == {Zero, F(1, 40), F(49, 1000), F(-1, 1)}

\* time between two frames that follow closely: none, and a microsecond
\* less than tick_limit ticks
ShortElapsed == {0, 5000 * Ms - 1}

\* time of a stall: tick_limit ticks and 52 ms, 150 ticks
LongElapsed == {5052 * Ms, 7500 * Ms}

\* values the player moves the slider to
TimerSliders == {-1, 6}

\* the history of SpecTimer: start, the timer at the first frame; elapsed,
\* the whole milliseconds the frames counted; added, the seconds added by
\* the debug button; ticks, the ticks run so far; negative, whether a
\* negative amount was added; long, the stalls and the clicks on the debug
\* button; frames, the frames in which time passed; since, those of them
\* after the last stall or click; short, whether a frame after the last
\* stall or click left a tick on the timer without having run tick_limit
\* ticks; worked, whether a frame after the last stall or click left less
\* than a tick
TimerStart(timer) ==
    [start |-> timer, elapsed |-> 0, added |-> Zero, ticks |-> 0,
     negative |-> FALSE, long |-> 0, frames |-> 0, since |-> 0,
     short |-> FALSE, worked |-> FALSE]

InitTimer ==
    /\ \E gs \in DefaultGameStates :
          /\ inventory = gs.inventory
          /\ ore_minigames = gs.ore_minigames
          /\ elements = gs.elements
    /\ prev_time = 0
    /\ game_timer \in TimerStarts
    /\ producer_index_marked_for_deletion = NoIndex
    /\ selection = "Summary"
    /\ debug_amt_slider = 100
    /\ before = inventory
    /\ inv0 = inventory
    /\ last = FrameRecord(0)
    /\ stats = [granted |-> [o \in Ores |-> 0], solved |-> [o \in Ores |-> 0]]
    /\ self = None
    /\ tick_rate = TickRate
    /\ om = <<>>
    /\ nticks = 0
    /\ storage = NoStorage
    /\ hist = TimerStart(game_timer)

\* a frame with click ev, elapsed microseconds after the last, is a stall
\* when tick_limit ticks do not cover the time it adds, and a click when ev
\* is one on the debug button
IsLong(ev, elapsed) ==
    \/ ev.op = "add_seconds"
    \/ tick_limit * 50 * Ms <= elapsed

\* a frame of SpecTimer with click ev, elapsed microseconds after the last
TimerFrame(ev, elapsed) ==
    /\ Update(elapsed, <<>>, ev)
    /\ hist' = [start |-> hist.start,
                elapsed |-> hist.elapsed + num_milliseconds(elapsed),
                added |-> IF ev.op = "add_seconds"
                          THEN RAdd(hist.added, F(debug_amt_slider, 1))
                          ELSE hist.added,
                ticks |-> hist.ticks + last'.ticks,
                negative |-> \/ hist.negative
                             \/ elapsed < 0
                             \/ ev.op = "add_seconds" /\ debug_amt_slider < 0,
                long |-> hist.long + (IF IsLong(ev, elapsed) THEN 1 ELSE 0),
                frames |-> hist.frames + (IF elapsed = 0 THEN 0 ELSE 1),
                since |-> IF IsLong(ev, elapsed) THEN 0
                          ELSE hist.since + (IF elapsed = 0 THEN 0 ELSE 1),
                short |-> /\ ~ IsLong(ev, elapsed)
                          /\ \/ hist.short
                             \/ /\ RLe(TickRate, game_timer')
                                /\ last'.ticks # tick_limit,
                worked |-> /\ ~ IsLong(ev, elapsed)
                           /\ hist.worked \/ RLt(game_timer', TickRate)]

\* a frame without a click, closely after the last
TimerIdle ==
    \E elapsed \in ShortElapsed :
        /\ elapsed = 0 \/ hist.frames < MaxTimerFrames
        /\ TimerFrame(NoClick, elapsed)

\* a frame without a click, after a stall
TimerStall ==
    \E elapsed \in LongElapsed :
        /\ hist.long < MaxLong
        /\ hist.frames < MaxTimerFrames
        /\ TimerFrame(NoClick, elapsed)

\* the player moves the slider, for a click on the debug button to follow
TimerSlider ==
    \E value \in TimerSliders :
        /\ hist.long < MaxLong
        /\ TimerFrame(Event("slider", "Money", value, 0), 0)

\* a click on "Debug: Add <slider> seconds", the slider having been moved
TimerAddSeconds ==
    /\ hist.long < MaxLong
    /\ debug_amt_slider \in TimerSliders
    /\ TimerFrame(Event("add_seconds", "Money", 0, 0), 0)

NextTimer == TimerIdle \/ TimerStall \/ TimerSlider \/ TimerAddSeconds

SpecTimer == InitTimer /\ [][NextTimer]_vars

\* C29: the timer and the ticks run so far, each a tick duration, add up to
\* the timer at the first frame, the elapsed times the frames added (each
\* the whole milliseconds since the frame before) and the seconds added by
\* the debug button; the timer is not negative when none
\* of these amounts is
C29_ClockConserved ==
    /\ RAdd(game_timer, RMul(F(hist.ticks, 1), TickRate))
           = RAdd(RAdd(hist.start, F(hist.elapsed, 1000)), hist.added)
    /\ (RLe(Zero, hist.start) /\ ~ hist.negative) => RLe(Zero, game_timer)

\* from half a tick on the timer: 6 s added by the debug button, a frame
\* 4999.999 ms later and a frame right after it; 200 ticks were run and 1.024 s
\* are left
C29_Witness ==
    /\ hist.start = F(1, 40)
    /\ hist.elapsed = 4999
    /\ hist.added = F(6, 1)
    /\ hist.ticks = 2 * tick_limit
    /\ game_timer = F(1024, 1000)
    /\ ~ hist.negative

----------------------------------------------------------------------------
(* SpecBacklog: the timer after stalls or a debt.  The frames before the   *)
(* last stall or click come in no time; those after it come either in no   *)
(* time or a microsecond less than tick_limit ticks' time after the one    *)
(* before.  Such a frame counts at most 4999 whole milliseconds and runs   *)
(* up to tick_limit ticks of 50 ms, so that a backlog shrinks by no more   *)
(* than a millisecond a frame when the frames come as late as they may:    *)
(* the stalls are those whose backlog is worked off even so within the     *)
(* frames counted here                                                     *)

\* time of a stall: tick_limit ticks and 2 ms, tick_limit ticks and 52 ms
BacklogStalls == {5002 * Ms, 5052 * Ms}

\* frames in which time passed, after the last stall or click: every stall
\* adds 52 ms at the most to less than a tick
MaxBacklogFrames == 52 * MaxLong

\* the value the player moves the slider to: a click then leaves a debt
BacklogSliders == {-1}

\* a frame without a click, closely after the last
BacklogIdle ==
    \E elapsed \in ShortElapsed :
        /\ \/ elapsed = 0
           \/ hist.long = MaxLong /\ hist.since < MaxBacklogFrames
        /\ TimerFrame(NoClick, elapsed)

\* a frame without a click, after a stall
BacklogStall ==
    \E elapsed \in BacklogStalls :
        /\ hist.long < MaxLong
        /\ TimerFrame(NoClick, elapsed)

\* the player moves the slider, for a click on the debug button to follow
BacklogSlider ==
    \E value \in BacklogSliders :
        /\ hist.long < MaxLong
        /\ debug_amt_slider \notin BacklogSliders
        /\ TimerFrame(Event("slider", "Money", value, 0), 0)

\* a click on "Debug: Add <slider> seconds", the slider having been moved
BacklogAddSeconds ==
    /\ hist.long < MaxLong
    /\ debug_amt_slider \in BacklogSliders
    /\ TimerFrame(Event("add_seconds", "Money", 0, 0), 0)

NextBacklog ==
    BacklogIdle \/ BacklogStall \/ BacklogSlider \/ BacklogAddSeconds

\* update ends with ctx.request_repaint(): a frame is always followed by
\* another
SpecBacklog == InitTimer /\ [][NextBacklog]_vars /\ WF_vars(BacklogIdle)

\* no stall and no click on the debug button follows
NoMoreLong == hist.long = MaxLong

\* less than a tick is on the timer, and every frame since the last stall or
\* click that left a tick ran tick_limit ticks
WorkedOff == RLt(game_timer, TickRate) /\ ~ hist.short

\* the model lets no more time pass
ClockStopped == hist.long = MaxLong /\ hist.since = MaxBacklogFrames

\* a frame after the last stall or click that leaves a tick on the timer ran
\* tick_limit ticks and leaves a millisecond less than it found, or less
BacklogShrinks ==
    (NoMoreLong /\ RLe(TickRate, game_timer')) =>
        /\ last'.ticks = tick_limit
        /\ RLe(RAdd(game_timer', F(1, 1000)), game_timer)

\* C30: once no stall and no click on the debug button follows, every frame
\* coming less than tick_limit ticks' time after the last, a later frame
\* ends with less than a tick on the timer, and the frames until then each
\* run tick_limit ticks; that frame comes while time still passes in the
\* model, however close to tick_limit ticks the frames are apart; and until
\* it comes every frame takes a millisecond or more off the timer
C30_BacklogWorkedOff ==
    /\ NoMoreLong ~> WorkedOff
    /\ [](ClockStopped => hist.worked /\ ~ hist.short)
    /\ [][BacklogShrinks]_vars

\* half a tick was on the timer and a stall of 5052 ms left 77 ms; 28
\* frames 4999.999 ms apart each ran tick_limit ticks, and the last left
\* 49 ms, less than a tick
C30_Witness ==
    /\ hist.start = F(1, 40)
    /\ hist.long = MaxLong
    /\ hist.elapsed = 5052 + 28 * 4999
    /\ hist.since = 28
    /\ hist.ticks = 29 * tick_limit
    /\ last.ticks = tick_limit
    /\ game_timer = F(49, 1000)
    /\ hist.worked
    /\ ~ hist.short

====
